---- MODULE Spec2Model ----
(***************************************************************************)
(* A model of neurokernel/base.py: BaseConnectivity (sparse port mapping   *)
(* between two modules), BaseModule (tick loop and net mode), Broker       *)
(* (per-tick barrier and dispatch) and BaseManager.connect.                *)
(*                                                                         *)
(* Module IDs are strings.  A key "src/dst/conn/param" of                  *)
(* BaseConnectivity._data is the tuple <<src, dst, conn, param>>; a        *)
(* direction "src/dst" is the tuple <<src, dst>>.  A sparse matrix is the  *)
(* record [nr, nc, v] of its shape and its dense contents.  A call that    *)
(* can raise returns a record whose err field names the exception ("ok"    *)
(* when none is raised) next to the state the call leaves behind.          *)
(***************************************************************************)
EXTENDS Integers, Sequences, FiniteSets, TLC

VARIABLES
    conns,              \* heap of BaseConnectivity objects, by object id
    tr,                 \* objects returned by successive transpose() calls
    last,               \* the last call made and how it ended
    nops,               \* number of calls made so far (bounded)
    conn_dict,          \* BaseModule._conn_dict of every module: peer -> object id
    net,                \* BaseModule._net of every module
    routing_table,      \* BaseManager.routing_table: set of edges <<src, dst>>
    mod_dict,           \* BaseManager.mod_dict: ids of the registered modules
    man_conn_dict,      \* BaseManager.conn_dict: ids of the registered objects
    pc,                 \* position of every module process in BaseModule.run
    tick,               \* number of completed iterations of the loop of run
    in_dict,            \* the in_dict of run, per module
    out,                \* the out of run, per module
    in_data,            \* BaseModule._in_data
    out_data,           \* BaseModule._out_data
    send_pos,           \* _sync: position of the send loop in _out_data
    send_ids,           \* _sync: the local list send_ids
    recv_ids,           \* _sync: the local list recv_ids
    rcvd,               \* frames received in the current _sync, per source
    toBroker,           \* frames sent by each module, not yet handled by the broker
    toModule,           \* frames sent by the broker, not yet received by the module
    data_to_route,      \* Broker.data_to_route
    recv_coords_list,   \* Broker.recv_coords_list
    man_ports,          \* <<port_data, port_ctrl>> of the manager, <<>> before it exists
    brok_dict,          \* BaseManager.brok_dict: ids of the registered brokers
    wports,             \* <<port_data, port_ctrl>> of every worker, <<>> before it exists
    wstate,             \* every worker process: "new", "running", "signalled", "exited"
    reactor,            \* TRUE while the worker's control reactor calls _ctrl_handler
    ctrl_in,            \* control frames sent to each worker, not yet handled
    ctrl_out,           \* [identity, 'ack'] frames not yet received by the manager
    mpc,                \* the manager: "setup", "idle", "wait_ack", "stop", "done"
    stop_ids,           \* stop: the local list recv_ids
    acked,              \* identities whose ack stop has received
    nacks               \* number of acks sent so far by each worker

mgrvars == <<conn_dict, net, routing_table, mod_dict, man_conn_dict>>
tickvars == <<pc, tick, in_dict, out, in_data, out_data, send_pos, send_ids, recv_ids,
              rcvd, toBroker, toModule, data_to_route, recv_coords_list>>
ctlvars == <<man_ports, brok_dict, wports, wstate, reactor, ctrl_in, ctrl_out, mpc, stop_ids,
             acked, nacks>>
runvars == <<tickvars, ctlvars>>
vars == <<conns, tr, last, nops, mgrvars, runvars>>

----------------------------------------------------------------------------
(* Bounds of the model *)

\* largest number of ports of a module in the connectivity specification
MaxPorts == 2
\* largest connection index passed to set/get
MaxConnIdx == 2
\* number of set and get calls explored
MaxSets == 2

Modules == {"m1", "m2", "m3"}
\* the order in which dict.values() lists the peers of a module
ModSeq == <<"m1", "m2", "m3">>
\* module IDs passed to the methods of a connectivity: '' is the default argument
IdInputs == {""} \cup Modules
Params == {"conn", "weight"}
Vals == {-1, 0, 1}
ConnIdx == 0 .. MaxConnIdx
PortIdx == 0 .. (MaxPorts - 1)

NoConn == "none"

----------------------------------------------------------------------------
(* BaseConnectivity *)

make_key(dir, conn, param) == <<dir[1], dir[2], conn, param>>

make_matrix(nr, nc) ==
    [nr |-> nr, nc |-> nc, v |-> [p \in (0 .. (nr - 1)) \X (0 .. (nc - 1)) |-> 0]]

\* scipy's nnz as a truth value: some stored entry is nonzero
nnz(m) == \E p \in DOMAIN m.v : m.v[p] # 0

\* the .T of a sparse matrix
MatT(m) ==
    [nr |-> m.nc, nc |-> m.nr,
     v |-> [p \in (0 .. (m.nc - 1)) \X (0 .. (m.nr - 1)) |-> m.v[<<p[2], p[1]>>]]]

AtoB(c) == <<c.A_id, c.B_id>>
BtoA(c) == <<c.B_id, c.A_id>>

BaseConnectivity(N_A, N_B, N_mult, A_id, B_id) ==
    [N_A |-> N_A, N_B |-> N_B, N_mult |-> N_mult, A_id |-> A_id, B_id |-> B_id,
     data |-> (make_key(<<A_id, B_id>>, 0, "conn") :> make_matrix(N_A, N_B))
              @@ (make_key(<<B_id, A_id>>, 0, "conn") :> make_matrix(N_B, N_A)),
     keys_by_dir |-> (<<A_id, B_id>> :> {make_key(<<A_id, B_id>>, 0, "conn")})
                     @@ (<<B_id, A_id>> :> {make_key(<<B_id, A_id>>, 0, "conn")})]

\* TRUE when _validate_mod_names does not raise
validate_mod_names(c, A_id, B_id) == {A_id, B_id} = {c.A_id, c.B_id}

N(c, id) ==
    IF id = c.A_id THEN [err |-> "ok", val |-> c.N_A]
    ELSE IF id = c.B_id THEN [err |-> "ok", val |-> c.N_B]
    ELSE [err |-> "ValueError", val |-> 0]

other_mod(c, id) ==
    IF id = c.A_id THEN [err |-> "ok", val |-> c.B_id]
    ELSE IF id = c.B_id THEN [err |-> "ok", val |-> c.A_id]
    ELSE [err |-> "ValueError", val |-> ""]

is_connected(c, src_id, dest_id) ==
    IF ~validate_mod_names(c, src_id, dest_id)
    THEN [err |-> "ValueError", val |-> FALSE]
    ELSE [err |-> "ok",
          val |-> \E k \in c.keys_by_dir[<<src_id, dest_id>>] : nnz(c.data[k])]

\* np.sum over the matrices of a set of keys, at one entry
RECURSIVE SumAt(_, _, _)
SumAt(c, keys, p) ==
    IF keys = {} THEN 0
    ELSE LET k == CHOOSE x \in keys : TRUE
         IN c.data[k].v[p] + SumAt(c, keys \ {k}, p)

src_mask(c, src_id, dest_id, dest_ports) ==
    IF ~(src_id = "" /\ dest_id = "") /\ ~validate_mod_names(c, src_id, dest_id)
    THEN [err |-> "ValueError", val |-> <<>>]
    ELSE LET dir == IF src_id = "" /\ dest_id = "" THEN AtoB(c)
                    ELSE <<src_id, dest_id>>
             keys == c.keys_by_dir[dir]
             nr == (c.data[CHOOSE k \in keys : TRUE]).nr
         IN [err |-> "ok",
             val |-> [i \in 0 .. (nr - 1) |->
                        \E j \in dest_ports : SumAt(c, keys, <<i, j>>) # 0]]

\* np.arange(n)[mask]: the positions of the true bits, ascending
RECURSIVE ArangeMask(_, _, _)
ArangeMask(n, mask, i) ==
    IF i >= n THEN <<>>
    ELSE (IF mask[i] THEN <<i>> ELSE <<>>) \o ArangeMask(n, mask, i + 1)

AllPorts(c, id) == 0 .. (N(c, id).val - 1)

src_idx(c, src_id, dest_id, dest_ports) ==
    IF ~(src_id = "" /\ dest_id = "") /\ ~validate_mod_names(c, src_id, dest_id)
    THEN [err |-> "ValueError", val |-> <<>>]
    ELSE LET s == IF src_id = "" /\ dest_id = "" THEN c.A_id ELSE src_id
             d == IF src_id = "" /\ dest_id = "" THEN c.B_id ELSE dest_id
             mask == src_mask(c, s, d, dest_ports).val
         IN [err |-> "ok", val |-> ArangeMask(N(c, s).val, mask, 0)]

get(c, src_id, src_i, dest_id, dest_i, conn, param) ==
    IF ~(src_id = "" /\ dest_id = "") /\ ~validate_mod_names(c, src_id, dest_id)
    THEN [err |-> "ValueError", val |-> 0]
    ELSE LET key == make_key(<<src_id, dest_id>>, conn, param)
         IN IF key \notin DOMAIN c.data THEN [err |-> "KeyError", val |-> 0]
            ELSE IF <<src_i, dest_i>> \notin DOMAIN c.data[key].v
                 THEN [err |-> "IndexError", val |-> 0]
                 ELSE [err |-> "ok", val |-> c.data[key].v[<<src_i, dest_i>>]]

\* self._data[key][src_idx, dest_idx] = val
store(c, key, src_i, dest_i, val) ==
    IF <<src_i, dest_i>> \notin DOMAIN c.data[key].v
    THEN [err |-> "IndexError", c |-> c]
    ELSE [err |-> "ok", c |-> [c EXCEPT !.data[key].v[<<src_i, dest_i>>] = val]]

set(c, src_id, src_i, dest_id, dest_i, conn, param, val) ==
    IF ~(src_id = "" /\ dest_id = "") /\ ~validate_mod_names(c, src_id, dest_id)
    THEN [err |-> "ValueError", c |-> c]
    ELSE LET dir == <<src_id, dest_id>>
             key == make_key(dir, conn, param)
         IN IF key \in DOMAIN c.data THEN store(c, key, src_i, dest_i, val)
            ELSE LET m == IF dir = AtoB(c) THEN make_matrix(c.N_A, c.N_B)
                          ELSE make_matrix(c.N_B, c.N_A)
                     c1 == [c EXCEPT !.data = (key :> m) @@ c.data]
                 IN IF dir \notin DOMAIN c.keys_by_dir
                    THEN [err |-> "KeyError", c |-> c1]
                    ELSE store([c1 EXCEPT
                                  !.keys_by_dir[dir] = @ \cup {key},
                                  !.N_mult = IF conn + 1 > @ THEN @ + 1 ELSE @],
                               key, src_i, dest_i, val)

\* the loop of transpose over self._data.keys()
RECURSIVE TransposeKeys(_, _, _)
TransposeKeys(self, keys, c) ==
    IF keys = {} THEN [err |-> "ok", c |-> c]
    ELSE LET old_key == CHOOSE k \in keys : TRUE
             new_dir == <<old_key[2], old_key[1]>>
             new_key == <<old_key[2], old_key[1], old_key[3], old_key[4]>>
             c1 == [c EXCEPT !.data = (new_key :> MatT(self.data[old_key])) @@ c.data]
         IN IF new_dir \notin DOMAIN c.keys_by_dir
            THEN [err |-> "KeyError", c |-> c1]
            ELSE TransposeKeys(self, keys \ {old_key},
                               [c1 EXCEPT !.keys_by_dir[new_dir] = @ \cup {new_key}])

transpose(self) ==
    LET c0 == BaseConnectivity(self.N_B, self.N_A, self.N_mult, self.B_id, self.A_id)
        c1 == [c0 EXCEPT !.keys_by_dir = (AtoB(self) :> {}) @@ (BtoA(self) :> {})]
    IN TransposeKeys(self, DOMAIN self.data, c1)

----------------------------------------------------------------------------
(* The connectivity specification: one object under set and transpose calls *)

Idle == [op |-> "none", err |-> "ok", args |-> <<>>]

\* payloads: a numpy array, the None of an absent payload, no entry
Data(a) == <<"data", a>>
None == <<"None", <<>>>>
Absent == <<"absent", <<>>>>

Brok == "b"
Workers == Modules \cup {Brok}

\* the control plane before any manager exists
InitUnusedCtl ==
    /\ man_ports = <<>>
    /\ brok_dict = {}
    /\ wports = [w \in Workers |-> <<>>]
    /\ wstate = [w \in Workers |-> "new"]
    /\ reactor = [w \in Workers |-> FALSE]
    /\ ctrl_in = [w \in Workers |-> <<>>]
    /\ ctrl_out = <<>>
    /\ mpc = "setup"
    /\ stop_ids = <<>>
    /\ acked = {}
    /\ nacks = [w \in Workers |-> 0]

\* the module processes before start()
InitUnusedRun ==
    /\ pc = [m \in Modules |-> "off"]
    /\ tick = [m \in Modules |-> 0]
    /\ in_dict = [m \in Modules |-> [s \in Modules |-> Absent]]
    /\ out = [m \in Modules |-> <<>>]
    /\ in_data = [m \in Modules |-> <<>>]
    /\ out_data = [m \in Modules |-> <<>>]
    /\ send_pos = [m \in Modules |-> 0]
    /\ send_ids = [m \in Modules |-> <<>>]
    /\ recv_ids = [m \in Modules |-> <<>>]
    /\ rcvd = [m \in Modules |-> [s \in Modules |-> 0]]
    /\ toBroker = [m \in Modules |-> <<>>]
    /\ toModule = [m \in Modules |-> <<>>]
    /\ data_to_route = <<>>
    /\ recv_coords_list = {}
    /\ InitUnusedCtl

InitUnusedMgr ==
    /\ conn_dict = [m \in Modules |-> [p \in Modules |-> NoConn]]
    /\ net = [m \in Modules |-> "none"]
    /\ routing_table = {}
    /\ mod_dict = {}
    /\ man_conn_dict = {}

InitConn ==
    /\ \E na \in 1 .. MaxPorts, nb \in 1 .. MaxPorts, nm \in {1, 2} :
          conns = [i \in {"c1"} |-> BaseConnectivity(na, nb, nm, "m1", "m2")]
    /\ tr = <<>>
    /\ last = Idle
    /\ nops = 0
    /\ InitUnusedMgr
    /\ InitUnusedRun

\* TRUE when one of the two module IDs of a call is neither A_id nor B_id
unknown_id(c, src_id, dest_id) ==
    src_id \notin {c.A_id, c.B_id} \/ dest_id \notin {c.A_id, c.B_id}

\* c.set(src_id, src_i, dest_id, dest_i, conn, param, val)
SetCall ==
    /\ nops < MaxSets
    /\ \E src_id \in IdInputs, dest_id \in IdInputs, src_i \in PortIdx,
          dest_i \in PortIdx, conn \in ConnIdx, param \in Params, val \in Vals :
          LET r == set(conns["c1"], src_id, src_i, dest_id, dest_i, conn, param, val)
          IN /\ conns' = [conns EXCEPT !["c1"] = r.c]
             /\ last' = [op |-> "set", err |-> r.err,
                         args |-> <<conn, unknown_id(conns["c1"], src_id, dest_id)>>]
    /\ nops' = nops + 1
    /\ tr' = <<>>
    /\ UNCHANGED <<mgrvars, runvars>>

\* c.get(src_id, src_i, dest_id, dest_i, conn, param)
GetCall ==
    /\ nops < MaxSets
    /\ \E src_id \in IdInputs, dest_id \in IdInputs, src_i \in PortIdx,
          dest_i \in PortIdx, conn \in ConnIdx, param \in Params :
          LET c == conns["c1"]
              r == get(c, src_id, src_i, dest_id, dest_i, conn, param)
          IN last' = [op |-> "get", err |-> r.err,
                      args |-> <<r.val, unknown_id(c, src_id, dest_id),
                                 make_key(<<src_id, dest_id>>, conn, param)
                                    \notin DOMAIN c.data>>]
    /\ nops' = nops + 1
    /\ UNCHANGED <<conns, tr, mgrvars, runvars>>

\* transpose() of the object, then of the object the previous call returned
TransposeCall ==
    /\ Len(tr) < 2
    /\ last.err = "ok" \/ last.op # "transpose"
    /\ LET r == transpose(IF tr = <<>> THEN conns["c1"] ELSE tr[Len(tr)])
       IN /\ tr' = IF r.err = "ok" THEN Append(tr, r.c) ELSE tr
          /\ last' = [op |-> "transpose", err |-> r.err, args |-> <<>>]
    /\ UNCHANGED <<conns, nops, mgrvars, runvars>>

NextConn == SetCall \/ GetCall \/ TransposeCall

SpecConn == InitConn /\ [][NextConn]_vars

----------------------------------------------------------------------------
(* Claims about BaseConnectivity *)

TheConn == conns["c1"]

\* the valid (src, dest) arguments of an object
Dirs(c) == {AtoB(c), BtoA(c)}

SeqToSet(s) == {s[n] : n \in 1 .. Len(s)}

\* two objects that get() cannot tell apart and that agree on the identity fields
SameConn(x, y) ==
    /\ x.A_id = y.A_id /\ x.B_id = y.B_id
    /\ x.N_A = y.N_A /\ x.N_B = y.N_B /\ x.N_mult = y.N_mult
    /\ \A d \in Dirs(y), k \in ConnIdx, p \in Params, i \in PortIdx, j \in PortIdx :
          get(x, d[1], i, d[2], j, k, p) = get(y, d[1], i, d[2], j, k, p)

\* C9: for every Connectivity C reachable by set calls, C.transpose().transpose()
\* exists and has the same A_id, B_id, N_A, N_B, N_mult and get() values as C
\* (stated on the calls made: no transpose call raises, and the object returned
\* by the second one equals C).
C9_TransposeRoundTrip ==
    /\ last.op = "transpose" => last.err = "ok"
    /\ Len(tr) = 2 => SameConn(tr[2], TheConn)

\* the conn matrices of one direction with connection index below N_mult
ConnKeys(c, d) ==
    {key \in DOMAIN c.data :
        /\ key[1] = d[1] /\ key[2] = d[2]
        /\ key[4] = "conn" /\ key[3] < c.N_mult}

\* the set { i | \E j \in S, \E k < N_mult : conn_k[i, j] # 0 }
ConnectedSrcPorts(c, d, S) ==
    {i \in AllPorts(c, d[1]) :
        \E j \in S, key \in ConnKeys(c, d) : c.data[key].v[<<i, j>>] # 0}

\* C10: src_idx(a, b, ports=S) lists, each once, exactly the source ports i with
\* conn_k[i, j] nonzero for some j in S and some connection index k < N_mult.
C10_SrcIdxIsAdjacency ==
    \A d \in Dirs(TheConn) : \A S \in SUBSET AllPorts(TheConn, d[2]) :
        LET r == src_idx(TheConn, d[1], d[2], S)
        IN /\ r.err = "ok"
           /\ SeqToSet(r.val) = ConnectedSrcPorts(TheConn, d, S)
           /\ Len(r.val) = Cardinality(SeqToSet(r.val))

\* C11: a set call that succeeds with connection index c leaves N_mult = c + 1
\* when c >= N_mult held before the call, and leaves N_mult unchanged when
\* c < N_mult.
C11_NMultGrowth ==
    [][(last'.op = "set" /\ last'.err = "ok") =>
          LET c == last'.args[1]
          IN conns'["c1"].N_mult =
                (IF c >= conns["c1"].N_mult THEN c + 1 ELSE conns["c1"].N_mult)]_vars

\* C12: get with valid module IDs for a (direction, connection index, parameter)
\* whose matrix was never created returns 0.
C12_GetMissingIsZero ==
    (last.op = "get" /\ ~last.args[2] /\ last.err # "ValueError" /\ last.args[3]) =>
        (last.err = "ok" /\ last.args[1] = 0)

dest_mask(c, src_id, dest_id, src_ports) ==
    IF ~(src_id = "" /\ dest_id = "") /\ ~validate_mod_names(c, src_id, dest_id)
    THEN [err |-> "ValueError", val |-> <<>>]
    ELSE LET dir == IF src_id = "" /\ dest_id = "" THEN AtoB(c)
                    ELSE <<src_id, dest_id>>
             keys == c.keys_by_dir[dir]
             nc == (c.data[CHOOSE k \in keys : TRUE]).nc
         IN [err |-> "ok",
             val |-> [j \in 0 .. (nc - 1) |->
                        \E i \in src_ports : SumAt(c, keys, <<i, j>>) # 0]]

dest_idx(c, src_id, dest_id, src_ports) ==
    IF ~(src_id = "" /\ dest_id = "") /\ ~validate_mod_names(c, src_id, dest_id)
    THEN [err |-> "ValueError", val |-> <<>>]
    ELSE LET s == IF src_id = "" /\ dest_id = "" THEN c.A_id ELSE src_id
             d == IF src_id = "" /\ dest_id = "" THEN c.B_id ELSE dest_id
             mask == dest_mask(c, s, d, src_ports).val
         IN [err |-> "ok", val |-> ArangeMask(N(c, d).val, mask, 0)]

\* the (src, dest) arguments with an unknown module ID, the default '', ''
\* of the mask and index methods excepted
UnknownPairs(c) ==
    {d \in IdInputs \X IdInputs : unknown_id(c, d[1], d[2]) /\ d # <<"", "">>}

\* C13: a call with a module ID that is neither A_id nor B_id fails: the
\* queries N, other_mod, is_connected, src_mask, src_idx, dest_mask and dest_idx
\* raise in every state, and every get or set step with such an ID ends in an
\* error and leaves the stored matrices, the key lists and N_mult as they were.
C13_UnknownIdFails ==
    [][/\ \A id \in IdInputs \ {TheConn.A_id, TheConn.B_id} :
             N(TheConn, id).err # "ok" /\ other_mod(TheConn, id).err # "ok"
       /\ \A d \in UnknownPairs(TheConn) :
             /\ is_connected(TheConn, d[1], d[2]).err # "ok"
             /\ src_mask(TheConn, d[1], d[2], AllPorts(TheConn, TheConn.B_id)).err # "ok"
             /\ src_idx(TheConn, d[1], d[2], AllPorts(TheConn, TheConn.B_id)).err # "ok"
             /\ dest_mask(TheConn, d[1], d[2], AllPorts(TheConn, TheConn.A_id)).err # "ok"
             /\ dest_idx(TheConn, d[1], d[2], AllPorts(TheConn, TheConn.A_id)).err # "ok"
       /\ (last'.op \in {"set", "get"} /\ last'.args[2]) =>
             (last'.err # "ok" /\ conns' = conns)]_vars

----------------------------------------------------------------------------
(* BaseModule.add_conn and BaseManager.connect.  A world W is the record of *)
(* the manager's and the modules' fields that connect reads and writes.     *)

NetModes == {"none", "ctrl", "in", "out", "full"}

\* add_conn with the net assigned from the new object alone
add_conn_net_overwrite(n, c, id) ==
    LET other == other_mod(c, id).val
        o == is_connected(c, id, other).val
        i == is_connected(c, other, id).val
    IN IF o /\ i THEN "full" ELSE IF o THEN "out" ELSE IF i THEN "in" ELSE "ctrl"

\* add_conn without the upgrade from in to full
add_conn_net_no_full(n, c, id) ==
    LET other == other_mod(c, id).val
        n1 == IF n = "none" THEN "ctrl" ELSE n
        n2 == IF is_connected(c, id, other).val
              THEN (IF n1 = "ctrl" THEN "out" ELSE n1)
              ELSE n1
        n3 == IF is_connected(c, other, id).val
              THEN (IF n2 = "ctrl" THEN "in" ELSE IF n2 = "out" THEN "full" ELSE n2)
              ELSE n2
    IN n3

\* lines 175-190 of add_conn: the new net of module id after adding object c
add_conn_net(n, c, id) ==
    LET other == other_mod(c, id).val
        n1 == IF n = "none" THEN "ctrl" ELSE n
        n2 == IF is_connected(c, id, other).val
              THEN (IF n1 = "ctrl" THEN "out" ELSE IF n1 = "in" THEN "full" ELSE n1)
              ELSE n1
        n3 == IF is_connected(c, other, id).val
              THEN (IF n2 = "ctrl" THEN "in" ELSE IF n2 = "out" THEN "full" ELSE n2)
              ELSE n2
    IN n3

add_conn(W, id, cid) ==
    LET c == W.conns[cid]
    IN IF id \notin {c.A_id, c.B_id} THEN [err |-> "ValueError", W |-> W]
       ELSE [err |-> "ok",
             W |-> [W EXCEPT !.conn_dict[id][other_mod(c, id).val] = cid,
                             !.net[id] = add_conn_net(@, c, id)]]

\* the peers of a module in the order of _conn_dict.values()
RECURSIVE PeersFrom(_, _)
PeersFrom(cd, n) ==
    IF n > Len(ModSeq) THEN <<>>
    ELSE (IF cd[ModSeq[n]] # NoConn THEN <<ModSeq[n]>> ELSE <<>>) \o PeersFrom(cd, n + 1)

RECURSIVE FilterPeers(_, _, _, _)
FilterPeers(W, id, peers, inbound) ==
    IF peers = <<>> THEN <<>>
    ELSE LET c == W.conns[W.conn_dict[id][Head(peers)]]
             o == other_mod(c, id).val
             keep == IF inbound THEN is_connected(c, o, id).val
                     ELSE is_connected(c, id, o).val
         IN (IF keep THEN <<o>> ELSE <<>>) \o FilterPeers(W, id, Tail(peers), inbound)

in_ids(W, id) == FilterPeers(W, id, PeersFrom(W.conn_dict[id], 1), TRUE)
out_ids(W, id) == FilterPeers(W, id, PeersFrom(W.conn_dict[id], 1), FALSE)

\* RoutingTable.__setitem__: routing_table[src, dst] = 1
rt_add(rt, src, dst) == rt \cup {<<src, dst>>}
\* RoutingTable.coords: the current edges, as a fresh list
rt_coords(rt) == rt

connect(W, m_A, m_B, cid) ==
    LET c == W.conns[cid]
    IN IF m_A \notin {c.A_id, c.B_id} \/ m_B \notin {c.A_id, c.B_id}
       THEN [err |-> "ValueError", W |-> W]
       ELSE LET W1 == [W EXCEPT !.mod_dict = @ \cup {m_A, m_B},
                                !.man_conn_dict = @ \cup {cid}]
                W2 == add_conn(W1, m_A, cid).W
                W3 == add_conn(W2, m_B, cid).W
                ab == is_connected(c, m_A, m_B)
                W4 == IF ab.val THEN [W3 EXCEPT !.routing_table = rt_add(@, m_A, m_B)]
                      ELSE W3
                ba == is_connected(c, m_B, m_A)
                W5 == IF ba.val THEN [W4 EXCEPT !.routing_table = rt_add(@, m_B, m_A)]
                      ELSE W4
            IN IF ab.err # "ok" THEN [err |-> ab.err, W |-> W3]
               ELSE IF ba.err # "ok" THEN [err |-> ba.err, W |-> W4]
               ELSE [err |-> "ok", W |-> W5]

World == [conns |-> conns, conn_dict |-> conn_dict, net |-> net,
          routing_table |-> routing_table, mod_dict |-> mod_dict,
          man_conn_dict |-> man_conn_dict]

----------------------------------------------------------------------------
(* The manager specification: connectivity writes and connect calls *)

\* number of connectivity writes explored in the manager specification
MaxMgrSets == 3

ConnIds == {"c1", "c2"}

\* two objects that both join m1 and m2, c2 the other way round
NewConns ==
    [i \in ConnIds |->
        IF i = "c1" THEN BaseConnectivity(1, 1, 1, "m1", "m2")
        ELSE BaseConnectivity(1, 1, 1, "m2", "m1")]

InitMgr ==
    /\ conns = NewConns
    /\ tr = <<>>
    /\ last = Idle
    /\ nops = 0
    /\ InitUnusedMgr
    /\ InitUnusedRun

\* conns[cid][src_id, 0, dest_id, 0] = val
MgrSet ==
    /\ nops < MaxMgrSets
    /\ \E cid \in ConnIds, val \in {0, 1} :
       \E d \in {AtoB(conns[cid]), BtoA(conns[cid])} :
          LET r == set(conns[cid], d[1], 0, d[2], 0, 0, "conn", val)
          IN /\ conns' = [conns EXCEPT ![cid] = r.c]
             /\ last' = [op |-> "set", err |-> r.err, args |-> <<>>]
    /\ nops' = nops + 1
    /\ UNCHANGED <<tr, mgrvars, runvars>>

\* manager.connect(m_A, m_B, conns[cid])
Connect ==
    /\ \E m_A \in Modules, m_B \in Modules, cid \in ConnIds :
          LET r == connect(World, m_A, m_B, cid)
          IN /\ conn_dict' = r.W.conn_dict
             /\ net' = r.W.net
             /\ routing_table' = r.W.routing_table
             /\ mod_dict' = r.W.mod_dict
             /\ man_conn_dict' = r.W.man_conn_dict
             /\ last' = [op |-> "connect", err |-> r.err, args |-> <<m_A, m_B, cid>>]
    /\ UNCHANGED <<conns, tr, nops, runvars>>

NextMgr == MgrSet \/ Connect

SpecMgr == InitMgr /\ [][NextMgr]_vars

----------------------------------------------------------------------------
(* Claims about add_conn and connect *)

\* the partial order none < ctrl < {in, out} < full
NetLeq(a, b) ==
    \/ a = b
    \/ a = "none"
    \/ a = "ctrl" /\ b \in {"in", "out", "full"}
    \/ a \in {"in", "out"} /\ b = "full"

\* C5: across any sequence of add_conn calls the net mode of a module never
\* regresses in the order none < ctrl < {in, out} < full.
C5_NetMonotonic == [][\A m \in Modules : NetLeq(net[m], net'[m])]_vars

\* a module that add_conn took from in or out up to full by a later call
C5_Witness ==
    /\ last.op = "connect" /\ last.err = "ok"
    /\ \E m \in Modules, p \in Modules :
          /\ net[m] = "full" /\ conn_dict[m][p] # NoConn
          /\ ~(is_connected(conns[conn_dict[m][p]], m, p).val
               /\ is_connected(conns[conn_dict[m][p]], p, m).val)

\* the transition of the claim: none to ctrl first, then the outbound upgrade,
\* then the inbound upgrade
ExpectedNet(n, outbound, inbound) ==
    LET n1 == IF n = "none" THEN "ctrl" ELSE n
        n2 == CASE outbound /\ n1 = "ctrl" -> "out"
                [] outbound /\ n1 = "in" -> "full"
                [] OTHER -> n1
    IN CASE inbound /\ n2 = "ctrl" -> "in"
         [] inbound /\ n2 = "out" -> "full"
         [] OTHER -> n2

ExpectedNetOf(n, c, m) ==
    ExpectedNet(n, is_connected(c, m, other_mod(c, m).val).val,
                   is_connected(c, other_mod(c, m).val, m).val)

\* C6: add_conn(conn) changes net by the transition of the claim and nothing
\* else changes net; a bidirectional connectivity ends in full, one with no
\* edges ends in ctrl from none and leaves any other mode unchanged.
C6_NetTransition ==
    [][IF nops' # nops THEN net' = net
       ELSE LET m_A == last'.args[1]
                m_B == last'.args[2]
                c == conns[last'.args[3]]
                ids == {c.A_id, c.B_id}
            IN \A m \in Modules :
                  IF m_A \notin ids \/ m_B \notin ids \/ m \notin {m_A, m_B}
                  THEN net'[m] = net[m]
                  ELSE LET o == is_connected(c, m, other_mod(c, m).val).val
                           i == is_connected(c, other_mod(c, m).val, m).val
                           e == ExpectedNetOf(net[m], c, m)
                       IN /\ net'[m] = IF m_A = m_B THEN ExpectedNetOf(e, c, m) ELSE e
                          /\ (o /\ i) => net'[m] = "full"
                          /\ (~o /\ ~i) =>
                                net'[m] = IF net[m] = "none" THEN "ctrl" ELSE net[m]]_vars

\* connect calls have taken one module to full while its peer stays at in or out
C6_Witness ==
    /\ last.op = "connect" /\ last.err = "ok"
    /\ \E m \in Modules, p \in Modules : net[m] = "full" /\ net[p] \in {"in", "out"}

\* C7: after manager.connect(a, b, C) returns, the routing table contains (a, b)
\* if and only if C.is_connected(a, b), and (b, a) if and only if
\* C.is_connected(b, a).
C7_RoutingIffConnected ==
    (last.op = "connect" /\ last.err = "ok") =>
        LET a == last.args[1]
            b == last.args[2]
            c == conns[last.args[3]]
        IN /\ (<<a, b>> \in routing_table) <=> is_connected(c, a, b).val
           /\ (<<b, a>> \in routing_table) <=> is_connected(c, b, a).val

\* C8: after any sequence of successful connect calls, for every registered
\* module m, in_ids(m) is the set of sources of the routing-table edges into m
\* and out_ids(m) the set of destinations of the edges out of m.
C8_ModulesAgreeWithTable ==
    (last.op = "connect" /\ last.err = "ok") =>
        \A m \in mod_dict :
            /\ SeqToSet(in_ids(World, m)) = {a \in Modules : <<a, m>> \in routing_table}
            /\ SeqToSet(out_ids(World, m)) = {b \in Modules : <<m, b>> \in routing_table}

----------------------------------------------------------------------------
(* BaseModule.run and Broker._data_handler *)

\* number of ports of a module: the 3 of the example of the source
NPorts == 3
\* number of iterations of the loop of run explored per module
MaxTick == 3

\* msgpack.packb / msgpack.unpackb of a tuple (ID, payload)
packb(t) == <<"msgpack", t[1], t[2]>>
unpackb(b) == <<b[2], b[3]>>

\* run_step of a module whose ports emit 7, 8, 9 in the first iteration and
\* ten more in every later one
run_step(id, t) == [p \in 1 .. NPorts |-> 10 * t + 6 + p]

\* np.asarray(out)[out_idx]
RECURSIVE TakeIdx(_, _)
TakeIdx(o, idx) ==
    IF idx = <<>> THEN <<>>
    ELSE <<o[Head(idx) + 1]>> \o TakeIdx(o, Tail(idx))

IdxInRange(o, idx) == \A n \in 1 .. Len(idx) : idx[n] + 1 \in 1 .. Len(o)

RECURSIVE StageOut(_, _, _, _)
StageOut(W, id, o, ids) ==
    IF ids = <<>> THEN <<>>
    ELSE LET out_id == Head(ids)
             c == W.conns[W.conn_dict[id][out_id]]
             out_idx == src_idx(c, id, out_id, AllPorts(c, out_id)).val
         IN <<<<out_id, Data(TakeIdx(o, out_idx))>>>> \o StageOut(W, id, o, Tail(ids))

\* _put_out_data appending to the buffer of the previous iteration
put_out_data_accumulate(W, id, o, old) == old \o StageOut(W, id, o, out_ids(W, id))

\* _put_out_data: the new _out_data (old is the buffer it clears)
put_out_data(W, id, o, old) == StageOut(W, id, o, out_ids(W, id))

\* TRUE when _put_out_data raises IndexError
put_out_data_raises(W, id, o) ==
    \E n \in 1 .. Len(out_ids(W, id)) :
        LET out_id == out_ids(W, id)[n]
            c == W.conns[W.conn_dict[id][out_id]]
        IN ~IdxInRange(o, src_idx(c, id, out_id, AllPorts(c, out_id)).val)

\* _get_in_data storing every entry that has at least an ID and a payload
RECURSIVE get_in_data_any_length(_, _)
get_in_data_any_length(d, buf) ==
    IF buf = <<>> THEN d
    ELSE LET entry == Head(buf)
         IN get_in_data_any_length(IF Len(entry) < 2 THEN d
                                   ELSE [d EXCEPT ![entry[1]] = entry[2]],
                                   Tail(buf))

\* _get_in_data: the in_dict after the entries of _in_data have been stored
RECURSIVE get_in_data(_, _)
get_in_data(d, buf) ==
    IF buf = <<>> THEN d
    ELSE LET entry == Head(buf)
         IN get_in_data(IF Len(entry) # 2 THEN d ELSE [d EXCEPT ![entry[1]] = entry[2]],
                        Tail(buf))

\* a remove that leaves the list as it is
remove_nothing(l, x) == l

\* list.remove(x): the list without the first occurrence of x
RECURSIVE Remove(_, _)
Remove(l, x) ==
    IF l = <<>> THEN <<>>
    ELSE IF Head(l) = x THEN Tail(l) ELSE <<Head(l)>> \o Remove(Tail(l), x)

\* the frames of a dispatch tagged with their destination instead of their source
RECURSIVE FramesFor_dest_tag(_, _)
FramesFor_dest_tag(dtr, dst) ==
    IF dtr = <<>> THEN <<>>
    ELSE (IF Head(dtr)[2] = dst THEN <<packb(<<Head(dtr)[2], Head(dtr)[3]>>)>> ELSE <<>>)
         \o FramesFor_dest_tag(Tail(dtr), dst)

\* the frames the broker sends to dst for the triples of data_to_route
RECURSIVE FramesFor(_, _)
FramesFor(dtr, dst) ==
    IF dtr = <<>> THEN <<>>
    ELSE (IF Head(dtr)[2] = dst THEN <<packb(<<Head(dtr)[1], Head(dtr)[3]>>)>> ELSE <<>>)
         \o FramesFor(Tail(dtr), dst)

\* _data_handler dispatching whenever it has accepted a frame
data_handler_no_barrier(dtr, rcl, rt, msg) ==
    LET in_id == msg[1]
        f == unpackb(msg[2])
        ok == <<in_id, f[1]>> \in rcl
        dtr1 == IF ok THEN Append(dtr, <<in_id, f[1], f[2]>>) ELSE dtr
        rcl1 == IF ok THEN rcl \ {<<in_id, f[1]>>} ELSE rcl
    IN IF ok
       THEN [data_to_route |-> <<>>, recv_coords_list |-> rcl1,
             sent |-> [d \in Modules |-> FramesFor(dtr1, d)]]
       ELSE [data_to_route |-> dtr1, recv_coords_list |-> rcl1,
             sent |-> [d \in Modules |-> <<>>]]

\* _data_handler buffering every frame, expected or not
data_handler_accept_all(dtr, rcl, rt, msg) ==
    LET in_id == msg[1]
        f == unpackb(msg[2])
        dtr1 == Append(dtr, <<in_id, f[1], f[2]>>)
        rcl1 == rcl \ {<<in_id, f[1]>>}
    IN IF rcl1 = {}
       THEN [data_to_route |-> <<>>, recv_coords_list |-> rt_coords(rt),
             sent |-> [d \in Modules |-> FramesFor(dtr1, d)]]
       ELSE [data_to_route |-> dtr1, recv_coords_list |-> rcl1,
             sent |-> [d \in Modules |-> <<>>]]

\* _data_handler letting a later frame of an edge replace the buffered one
data_handler_last_wins(dtr, rcl, rt, msg) ==
    LET in_id == msg[1]
        f == unpackb(msg[2])
        ok == <<in_id, f[1]>> \in rcl
        dtr1 == IF ok THEN Append(dtr, <<in_id, f[1], f[2]>>)
                ELSE [n \in 1 .. Len(dtr) |->
                         IF dtr[n][1] = in_id /\ dtr[n][2] = f[1]
                         THEN <<in_id, f[1], f[2]>> ELSE dtr[n]]
        rcl1 == IF ok THEN rcl \ {<<in_id, f[1]>>} ELSE rcl
    IN IF rcl1 = {}
       THEN [data_to_route |-> <<>>, recv_coords_list |-> rt_coords(rt),
             sent |-> [d \in Modules |-> FramesFor(dtr1, d)]]
       ELSE [data_to_route |-> dtr1, recv_coords_list |-> rcl1,
             sent |-> [d \in Modules |-> <<>>]]

\* _data_handler dispatching without emptying data_to_route
data_handler_keep_buffer(dtr, rcl, rt, msg) ==
    LET in_id == msg[1]
        f == unpackb(msg[2])
        ok == <<in_id, f[1]>> \in rcl
        dtr1 == IF ok THEN Append(dtr, <<in_id, f[1], f[2]>>) ELSE dtr
        rcl1 == IF ok THEN rcl \ {<<in_id, f[1]>>} ELSE rcl
    IN IF rcl1 = {}
       THEN [data_to_route |-> dtr1, recv_coords_list |-> rt_coords(rt),
             sent |-> [d \in Modules |-> FramesFor(dtr1, d)]]
       ELSE [data_to_route |-> dtr1, recv_coords_list |-> rcl1,
             sent |-> [d \in Modules |-> <<>>]]

\* _data_handler dispatching without re-arming the expected set
data_handler_no_rearm(dtr, rcl, rt, msg) ==
    LET in_id == msg[1]
        f == unpackb(msg[2])
        ok == <<in_id, f[1]>> \in rcl
        dtr1 == IF ok THEN Append(dtr, <<in_id, f[1], f[2]>>) ELSE dtr
        rcl1 == IF ok THEN rcl \ {<<in_id, f[1]>>} ELSE rcl
    IN IF rcl1 = {}
       THEN [data_to_route |-> <<>>, recv_coords_list |-> rcl1,
             sent |-> [d \in Modules |-> FramesFor(dtr1, d)]]
       ELSE [data_to_route |-> dtr1, recv_coords_list |-> rcl1,
             sent |-> [d \in Modules |-> <<>>]]

\* Broker._data_handler on the message msg = [identity, packed (dest, data)]:
\* the new data_to_route and recv_coords_list and the frames sent to each module
data_handler(dtr, rcl, rt, msg) ==
    IF Len(msg) # 2
    THEN [data_to_route |-> dtr, recv_coords_list |-> rcl,
          sent |-> [d \in Modules |-> <<>>]]
    ELSE LET in_id == msg[1]
             f == unpackb(msg[2])
             ok == <<in_id, f[1]>> \in rcl
             dtr1 == IF ok THEN Append(dtr, <<in_id, f[1], f[2]>>) ELSE dtr
             rcl1 == IF ok THEN rcl \ {<<in_id, f[1]>>} ELSE rcl
         IN IF rcl1 = {}
            THEN [data_to_route |-> <<>>, recv_coords_list |-> rt_coords(rt),
                  sent |-> [d \in Modules |-> FramesFor(dtr1, d)]]
            ELSE [data_to_route |-> dtr1, recv_coords_list |-> rcl1,
                  sent |-> [d \in Modules |-> <<>>]]

----------------------------------------------------------------------------
(* The emulations the run specification starts from, each built by the      *)
(* manager: connectivity writes, then connect calls, then start().          *)

RunConnIds == {"c12", "c13", "c23"}

RunConns ==
    [i \in RunConnIds |->
        IF i = "c12" THEN BaseConnectivity(NPorts, NPorts, 1, "m1", "m2")
        ELSE IF i = "c13" THEN BaseConnectivity(NPorts, NPorts, 1, "m1", "m3")
        ELSE BaseConnectivity(NPorts, NPorts, 1, "m2", "m3")]

EmptyWorld ==
    [conns |-> RunConns,
     conn_dict |-> [m \in Modules |-> [p \in Modules |-> NoConn]],
     net |-> [m \in Modules |-> "none"],
     routing_table |-> {}, mod_dict |-> {}, man_conn_dict |-> {}]

\* conns[cid][src, i, dst, j] = 1, for a sequence of <<cid, src, i, dst, j>>;
\* an entry <<cid, src, i, dst, j, param, val>> is conns[cid].set(..., param, val)
RECURSIVE ApplySets(_, _)
ApplySets(W, sets) ==
    IF sets = <<>> THEN W
    ELSE LET w == Head(sets)
             c == IF Len(w) = 5
                  THEN set(W.conns[w[1]], w[2], w[3], w[4], w[5], 0, "conn", 1).c
                  ELSE set(W.conns[w[1]], w[2], w[3], w[4], w[5], 0, w[6], w[7]).c
         IN ApplySets([W EXCEPT !.conns[w[1]] = c], Tail(sets))

\* manager.connect(m_A, m_B, conns[cid]), for a sequence of <<m_A, m_B, cid>>
RECURSIVE ApplyConnects(_, _)
ApplyConnects(W, cs) ==
    IF cs = <<>> THEN W
    ELSE ApplyConnects(connect(W, Head(cs)[1], Head(cs)[2], Head(cs)[3]).W, Tail(cs))

BuildWorld(scn) == ApplyConnects(ApplySets(EmptyWorld, scn.sets), scn.connects)

\* two modules, the identity in both directions
ScnIdentity ==
    [sets |-> << <<"c12", "m1", 0, "m2", 0>>, <<"c12", "m1", 1, "m2", 1>>,
                 <<"c12", "m1", 2, "m2", 2>>, <<"c12", "m2", 0, "m1", 0>>,
                 <<"c12", "m2", 1, "m1", 1>>, <<"c12", "m2", 2, "m1", 2>> >>,
     connects |-> << <<"m1", "m2", "c12">> >>]

\* m1 -> m2 with adjacency diag(1, 0, 1)
ScnSparse ==
    [sets |-> << <<"c12", "m1", 0, "m2", 0>>, <<"c12", "m1", 2, "m2", 2>> >>,
     connects |-> << <<"m1", "m2", "c12">> >>]

\* m1 -> m3 and m2 -> m3: two senders that receive nothing
ScnFanIn ==
    [sets |-> << <<"c13", "m1", 0, "m3", 0>>, <<"c23", "m2", 1, "m3", 0>> >>,
     connects |-> << <<"m1", "m3", "c13">>, <<"m2", "m3", "c23">> >>]

\* m1 -> m2 -> m3
ScnChain ==
    [sets |-> << <<"c12", "m1", 0, "m2", 0>>, <<"c23", "m2", 1, "m3", 2>> >>,
     connects |-> << <<"m1", "m2", "c12">>, <<"m2", "m3", "c23">> >>]

\* three modules, every pair connected in both directions
ScnFull ==
    [sets |-> << <<"c12", "m1", 0, "m2", 0>>, <<"c12", "m2", 0, "m1", 1>>,
                 <<"c13", "m1", 1, "m3", 0>>, <<"c13", "m3", 0, "m1", 2>>,
                 <<"c23", "m2", 1, "m3", 1>>, <<"c23", "m3", 2, "m2", 2>> >>,
     connects |-> << <<"m1", "m2", "c12">>, <<"m1", "m3", "c13">>,
                     <<"m2", "m3", "c23">> >>]

\* m1 -> m2 and m1 -> m3, where the 'weight' entry of m1 -> m3 is the negative
\* of the 'conn' entry, so that src_idx(m1, m3) is empty
ScnCancel ==
    [sets |-> << <<"c12", "m1", 0, "m2", 0>>, <<"c13", "m1", 0, "m3", 0>>,
                 <<"c13", "m1", 0, "m3", 0, "weight", -1>> >>,
     connects |-> << <<"m1", "m2", "c12">>, <<"m1", "m3", "c13">> >>]

\* m1 -> m2, and m3 attached to m2 by a connectivity without connections
ScnCtrl ==
    [sets |-> << <<"c12", "m1", 1, "m2", 1>> >>,
     connects |-> << <<"m1", "m2", "c12">>, <<"m2", "m3", "c23">> >>]

Scenarios == {ScnIdentity, ScnSparse, ScnFanIn, ScnChain, ScnFull, ScnCancel, ScnCtrl}

----------------------------------------------------------------------------
(* The run specification: the module processes and the broker after start() *)

InitRun ==
    \E scn \in Scenarios :
       LET W == BuildWorld(scn)
       IN /\ conns = W.conns
          /\ conn_dict = W.conn_dict
          /\ net = W.net
          /\ routing_table = W.routing_table
          /\ mod_dict = W.mod_dict
          /\ man_conn_dict = W.man_conn_dict
          /\ tr = <<>>
          /\ last = Idle
          /\ nops = 0
          /\ pc = [m \in Modules |-> IF m \in W.mod_dict THEN "get_in" ELSE "off"]
          /\ tick = [m \in Modules |-> 0]
          /\ in_dict = [m \in Modules |-> [x \in Modules |-> Absent]]
          /\ out = [m \in Modules |-> <<>>]
          /\ in_data = [m \in Modules |-> <<>>]
          /\ out_data = [m \in Modules |-> <<>>]
          /\ send_pos = [m \in Modules |-> 0]
          /\ send_ids = [m \in Modules |-> <<>>]
          /\ recv_ids = [m \in Modules |-> <<>>]
          /\ rcvd = [m \in Modules |-> [x \in Modules |-> 0]]
          /\ toBroker = [m \in Modules |-> <<>>]
          /\ toModule = [m \in Modules |-> <<>>]
          /\ data_to_route = <<>>
          /\ recv_coords_list = rt_coords(W.routing_table)
          /\ InitUnusedCtl

static == <<conns, tr, last, nops, mgrvars, ctlvars>>

\* self._get_in_data(in_dict)
GetInData ==
    \E m \in Modules :
       /\ pc[m] = "get_in" /\ tick[m] < MaxTick
       /\ in_dict' = [in_dict EXCEPT ![m] = get_in_data(@, in_data[m])]
       /\ in_data' = [in_data EXCEPT ![m] = <<>>]
       /\ pc' = [pc EXCEPT ![m] = "run_step"]
       /\ UNCHANGED <<static, tick, out, out_data, send_pos, send_ids, recv_ids, rcvd,
                      toBroker, toModule, data_to_route, recv_coords_list>>

\* self.run_step(in_dict, out)
RunStep ==
    \E m \in Modules :
       /\ pc[m] = "run_step"
       /\ out' = [out EXCEPT ![m] = run_step(m, tick[m])]
       /\ pc' = [pc EXCEPT ![m] = "put_out"]
       /\ UNCHANGED <<static, tick, in_dict, in_data, out_data, send_pos, send_ids,
                      recv_ids, rcvd, toBroker, toModule, data_to_route,
                      recv_coords_list>>

\* self._put_out_data(out)
PutOutData ==
    \E m \in Modules :
       /\ pc[m] = "put_out"
       /\ IF put_out_data_raises(World, m, out[m])
          THEN /\ pc' = [pc EXCEPT ![m] = "crashed"]
               /\ out_data' = [out_data EXCEPT ![m] = <<>>]
          ELSE /\ pc' = [pc EXCEPT ![m] = "sync"]
               /\ out_data' = [out_data EXCEPT
                                 ![m] = put_out_data(World, m, out[m], out_data[m])]
       /\ UNCHANGED <<static, tick, in_dict, out, in_data, send_pos, send_ids, recv_ids,
                      rcvd, toBroker, toModule, data_to_route, recv_coords_list>>

\* the receive part of _sync waiting for all but the first ID of in_ids
BeginRecv_skip_first(m) ==
    IF net[m] \in {"in", "full"}
    THEN /\ recv_ids' = [recv_ids EXCEPT ![m] = Tail(in_ids(World, m))]
         /\ in_data' = [in_data EXCEPT ![m] = <<>>]
         /\ rcvd' = [rcvd EXCEPT ![m] = [x \in Modules |-> 0]]
         /\ IF Tail(in_ids(World, m)) # <<>>
            THEN pc' = [pc EXCEPT ![m] = "recv"] /\ tick' = tick
            ELSE pc' = [pc EXCEPT ![m] = "get_in"] /\ tick' = [tick EXCEPT ![m] = @ + 1]
    ELSE /\ pc' = [pc EXCEPT ![m] = "get_in"]
         /\ tick' = [tick EXCEPT ![m] = @ + 1]
         /\ UNCHANGED <<recv_ids, in_data, rcvd>>

\* _sync from "Receive inbound data" on: the receive loop is entered, or the
\* iteration ends when there is nothing to wait for
BeginRecv(m) ==
    IF net[m] \in {"in", "full"}
    THEN /\ recv_ids' = [recv_ids EXCEPT ![m] = in_ids(World, m)]
         /\ in_data' = [in_data EXCEPT ![m] = <<>>]
         /\ rcvd' = [rcvd EXCEPT ![m] = [x \in Modules |-> 0]]
         /\ IF in_ids(World, m) # <<>>
            THEN pc' = [pc EXCEPT ![m] = "recv"] /\ tick' = tick
            ELSE pc' = [pc EXCEPT ![m] = "get_in"] /\ tick' = [tick EXCEPT ![m] = @ + 1]
    ELSE /\ pc' = [pc EXCEPT ![m] = "get_in"]
         /\ tick' = [tick EXCEPT ![m] = @ + 1]
         /\ UNCHANGED <<recv_ids, in_data, rcvd>>

\* the entry of _sync, up to send_ids = self.out_ids
Sync ==
    \E m \in Modules :
       /\ pc[m] = "sync"
       /\ IF net[m] \in {"none", "ctrl"}
          THEN /\ pc' = [pc EXCEPT ![m] = "get_in"]
               /\ tick' = [tick EXCEPT ![m] = @ + 1]
               /\ UNCHANGED <<send_ids, send_pos, recv_ids, in_data, rcvd>>
          ELSE IF net[m] \in {"out", "full"}
          THEN /\ send_ids' = [send_ids EXCEPT ![m] = out_ids(World, m)]
               /\ send_pos' = [send_pos EXCEPT ![m] = 1]
               /\ pc' = [pc EXCEPT ![m] = "send"]
               /\ UNCHANGED <<tick, recv_ids, in_data, rcvd>>
          ELSE /\ BeginRecv(m)
               /\ UNCHANGED <<send_ids, send_pos>>
       /\ UNCHANGED <<static, in_dict, out, out_data, toBroker, toModule, data_to_route,
                      recv_coords_list>>

\* one self.sock_data.send of _sync: the next entry of _out_data, then None for
\* every ID left in send_ids
SyncSend ==
    \E m \in Modules :
       /\ pc[m] = "send"
       /\ send_pos[m] <= Len(out_data[m]) \/ send_ids[m] # <<>>
       /\ IF send_pos[m] <= Len(out_data[m])
          THEN LET e == out_data[m][send_pos[m]]
               IN /\ toBroker' = [toBroker EXCEPT ![m] = Append(@, packb(e))]
                  /\ send_pos' = [send_pos EXCEPT ![m] = @ + 1]
                  /\ IF e[1] \in SeqToSet(send_ids[m])
                     THEN /\ send_ids' = [send_ids EXCEPT ![m] = Remove(@, e[1])]
                          /\ pc' = pc
                     ELSE /\ send_ids' = send_ids
                          /\ pc' = [pc EXCEPT ![m] = "crashed"]
          ELSE /\ toBroker' = [toBroker EXCEPT
                                 ![m] = Append(@, packb(<<Head(send_ids[m]), None>>))]
               /\ send_ids' = [send_ids EXCEPT ![m] = Tail(@)]
               /\ UNCHANGED <<send_pos, pc>>
       /\ UNCHANGED <<static, tick, in_dict, out, in_data, out_data, recv_ids, rcvd,
                      toModule, data_to_route, recv_coords_list>>

\* the end of the send part of _sync
SyncSent ==
    \E m \in Modules :
       /\ pc[m] = "send"
       /\ send_pos[m] > Len(out_data[m]) /\ send_ids[m] = <<>>
       /\ BeginRecv(m)
       /\ UNCHANGED <<static, in_dict, out, out_data, send_pos, send_ids, toBroker,
                      toModule, data_to_route, recv_coords_list>>

\* one self.sock_data.recv of _sync
SyncRecv ==
    \E m \in Modules :
       /\ pc[m] = "recv"
       /\ toModule[m] # <<>>
       /\ LET f == unpackb(Head(toModule[m]))
              in_id == f[1]
              data == f[2]
          IN /\ toModule' = [toModule EXCEPT ![m] = Tail(@)]
             /\ rcvd' = [rcvd EXCEPT ![m][in_id] = @ + 1]
             /\ IF in_id \notin SeqToSet(recv_ids[m])
                THEN /\ pc' = [pc EXCEPT ![m] = "crashed"]
                     /\ UNCHANGED <<recv_ids, in_data, tick>>
                ELSE /\ recv_ids' = [recv_ids EXCEPT ![m] = Remove(@, in_id)]
                     /\ in_data' = [in_data EXCEPT
                                      ![m] = IF data # None THEN Append(@, <<in_id, data>>)
                                             ELSE @]
                     /\ IF Remove(recv_ids[m], in_id) = <<>>
                        THEN /\ pc' = [pc EXCEPT ![m] = "get_in"]
                             /\ tick' = [tick EXCEPT ![m] = @ + 1]
                        ELSE UNCHANGED <<pc, tick>>
       /\ UNCHANGED <<static, in_dict, out, out_data, send_pos, send_ids, toBroker,
                      data_to_route, recv_coords_list>>

\* Broker._data_handler on the oldest unhandled frame of some module
DataHandler ==
    \E m \in Modules :
       /\ toBroker[m] # <<>>
       /\ LET r == data_handler(data_to_route, recv_coords_list, routing_table,
                                <<m, Head(toBroker[m])>>)
          IN /\ data_to_route' = r.data_to_route
             /\ recv_coords_list' = r.recv_coords_list
             /\ toModule' = [d \in Modules |-> toModule[d] \o r.sent[d]]
       /\ toBroker' = [toBroker EXCEPT ![m] = Tail(@)]
       /\ UNCHANGED <<static, pc, tick, in_dict, out, in_data, out_data, send_pos,
                      send_ids, recv_ids, rcvd>>

NextRun ==
    \/ GetInData \/ RunStep \/ PutOutData \/ Sync \/ SyncSend \/ SyncSent \/ SyncRecv
    \/ DataHandler

SpecRun == InitRun /\ [][NextRun]_vars

----------------------------------------------------------------------------
(* Claims about the tick protocol *)

Edge(a, b) == <<a, b>> \in routing_table

\* C1: for every tick and every routing-table edge (a, b), module b receives
\* exactly one frame tagged a between sending its outputs and starting its next
\* iteration: no receive raises, a module past its first synchronisation has
\* counted one frame for each of its inbound edges and none for any other
\* module, and a module still receiving has counted no source twice.
C1_ExactlyOneFramePerEdge ==
    \A b \in Modules :
       /\ pc[b] # "crashed"
       /\ pc[b] = "recv" =>
             \A a \in Modules : rcvd[b][a] <= (IF Edge(a, b) THEN 1 ELSE 0)
       /\ (pc[b] \in {"get_in", "run_step", "put_out", "sync", "send"} /\ tick[b] >= 1) =>
             \A a \in Modules : rcvd[b][a] = (IF Edge(a, b) THEN 1 ELSE 0)

\* m3 of the fan-in emulation has completed its third synchronisation with one
\* frame from each of its two sources
C1_Witness ==
    /\ routing_table = {<<"m1", "m3">>, <<"m2", "m3">>}
    /\ pc["m3"] = "get_in" /\ tick["m3"] = MaxTick
    /\ rcvd["m3"]["m1"] = 1 /\ rcvd["m3"]["m2"] = 1

\* the frames of seq appended to old
Appended(old, new) == SubSeq(new, Len(old) + 1, Len(new))

\* C2: the broker sends to modules only in the handler step that receives the
\* last outstanding edge of the snapshot: in any step that adds a frame to a
\* module's inbound queue, the expected set held exactly the edge of the frame
\* being handled, every earlier edge's frame was already buffered, the step
\* sends one frame per routing-table edge (from the edge's source to its
\* destination), and the expected set is re-armed and the buffer emptied.
C2_DispatchOnlyOnFullRound ==
    [][(\E d \in Modules : Len(toModule'[d]) > Len(toModule[d])) =>
         /\ \E m \in Modules :
               /\ toBroker[m] # <<>> /\ toBroker'[m] = Tail(toBroker[m])
               /\ recv_coords_list = {<<m, unpackb(Head(toBroker[m]))[1]>>}
         /\ Len(data_to_route) = Cardinality(routing_table) - 1
         /\ \A n \in 1 .. Len(data_to_route) :
               Edge(data_to_route[n][1], data_to_route[n][2])
         /\ \A d \in Modules :
               /\ toModule[d] = SubSeq(toModule'[d], 1, Len(toModule[d]))
               /\ \A a \in Modules :
                     Cardinality({n \in 1 .. Len(Appended(toModule[d], toModule'[d])) :
                                     unpackb(Appended(toModule[d], toModule'[d])[n])[1] = a})
                        = (IF Edge(a, d) THEN 1 ELSE 0)
         /\ recv_coords_list' = routing_table
         /\ data_to_route' = <<>>]_vars

\* in the fully connected emulation two modules wait in their first receive
\* with nothing delivered while the third has not yet sent
C2_Witness ==
    /\ Cardinality(routing_table) = 6
    /\ pc["m1"] = "recv" /\ pc["m2"] = "recv" /\ pc["m3"] = "run_step"
    /\ tick = [m \in Modules |-> 0]
    /\ toBroker = [m \in Modules |-> <<>>]
    /\ toModule = [m \in Modules |-> <<>>]
    /\ Len(data_to_route) = 4

\* the entry _put_out_data of module a stages for b from a's output of iteration t
RECURSIVE EntryFor(_, _)
EntryFor(buf, b) ==
    IF buf = <<>> THEN Absent
    ELSE IF Head(buf)[1] = b THEN Head(buf)[2] ELSE EntryFor(Tail(buf), b)

Projection(a, b, t) == EntryFor(put_out_data(World, a, run_step(a, t), <<>>), b)

\* C3: for every routing-table edge (a, b) and every tick t, what b holds in
\* in_dict[a] when it computes its tick t+1 is the projection of the output a
\* produced in a's own tick t.
C3_TickAlignment ==
    \A a \in Modules, b \in Modules :
       (Edge(a, b) /\ pc[b] = "run_step" /\ tick[b] >= 1) =>
           in_dict[b][a] = Projection(a, b, tick[b] - 1)

\* ascending and without repetition
Ascending(idx) == \A n \in 1 .. (Len(idx) - 1) : idx[n] < idx[n + 1]

FramesOf(q, id) == {n \in 1 .. Len(q) : unpackb(q[n])[1] = id}

\* the ports of m that _put_out_data selects for its peer dst
SelectedFor(m, dst) ==
    LET c == conns[conn_dict[m][dst]]
    IN src_idx(c, m, dst, AllPorts(c, dst)).val

\* C20: when the projection of module m for a declared outbound peer dst
\* selects nothing, every frame m has sent on the edge (m, dst) carries the
\* absence sentinel None, and dst holds no in_dict entry for m.
C20_SentinelOnEmptyProjection ==
    \A m \in Modules :
       \A dst \in SeqToSet(out_ids(World, m)) :
          SelectedFor(m, dst) = <<>> =>
             /\ \A n \in FramesOf(toBroker[m], dst) : unpackb(toBroker[m][n])[2] = None
             /\ \A n \in FramesOf(toModule[dst], m) : unpackb(toModule[dst][n])[2] = None
             /\ in_dict[dst][m] = Absent

----------------------------------------------------------------------------
(* The module specification: one module of an emulation runs its loop       *)
(* against a broker that relays what each source sends it in a              *)
(* synchronisation: the projection the source stages for it, or the None    *)
(* that the _sync of the source sends for a peer it has staged nothing for. *)

InitModule ==
    \E scn \in Scenarios :
       LET W == BuildWorld(scn)
       IN /\ conns = W.conns
          /\ conn_dict = W.conn_dict
          /\ net = W.net
          /\ routing_table = W.routing_table
          /\ mod_dict = W.mod_dict
          /\ man_conn_dict = W.man_conn_dict
          /\ tr = <<>>
          /\ last = Idle
          /\ nops = 0
          /\ InitUnusedRun

\* the module under study is started
StartModule ==
    \E m \in Modules :
       /\ \A x \in Modules : pc[x] = "off"
       /\ pc' = [pc EXCEPT ![m] = "get_in"]
       /\ recv_coords_list' = rt_coords(routing_table)
       /\ UNCHANGED <<static, tick, in_dict, out, in_data, out_data, send_pos, send_ids,
                      recv_ids, rcvd, toBroker, toModule, data_to_route>>

\* the broker delivers the frame of a source the module is still waiting for
PeerFrame ==
    \E m \in Modules :
       /\ pc[m] = "recv" /\ toModule[m] = <<>>
       /\ \E s \in SeqToSet(recv_ids[m]) :
             /\ ~put_out_data_raises(World, s, run_step(s, tick[m]))
             /\ \E data \in {Projection(s, m, tick[m]), None} :
                   toModule' = [toModule EXCEPT ![m] = <<packb(<<s, data>>)>>]
       /\ UNCHANGED <<static, pc, tick, in_dict, out, in_data, out_data, send_pos,
                      send_ids, recv_ids, rcvd, toBroker, data_to_route,
                      recv_coords_list>>

NextModule ==
    \/ StartModule \/ GetInData \/ RunStep \/ PutOutData \/ Sync \/ SyncSend \/ SyncSent
    \/ SyncRecv \/ PeerFrame

SpecModule == InitModule /\ [][NextModule]_vars

\* C19: at every call of run_step, in_dict holds an entry for source s exactly
\* when s delivered a payload other than None in the synchronisation just
\* finished, and the entry is that payload; stated on the step of run that
\* fills in_dict before run_step is called.
C19_InDictPerTick ==
    [][\A m \in Modules :
          (pc[m] = "get_in" /\ pc'[m] = "run_step") =>
              \A s \in Modules : in_dict'[m][s] = EntryFor(in_data[m], s)]_vars

----------------------------------------------------------------------------
(* The control specification: construction of the manager and the workers,  *)
(* start, send_ctrl_msg, stop, and the control handlers of the workers.     *)
(* The body of a module (the loop of run) is not followed here.             *)

PORT_DATA == 5000
PORT_CTRL == 5001
Ports == {PORT_DATA, PORT_CTRL}

\* number of send_ctrl_msg calls explored
MaxCtrlMsgs == 1
\* longest queue of unhandled control frames kept per worker; stop re-sends
\* quit on every pass of its loop, and a quit behind this many is left out
MaxCtrlQueue == 2

Verbs == {"quit", "conn"}

\* BaseModule.__init__, Broker.__init__, BaseManager.__init__: the exception raised
BaseModule_init(port_data, port_ctrl) ==
    IF port_data = port_ctrl THEN "ValueError" ELSE "ok"
Broker_init(port_data, port_ctrl) ==
    IF port_data = port_ctrl THEN "ValueError" ELSE "ok"
BaseManager_init(port_data, port_ctrl) == "ok"

\* BaseModule._ctrl_handler(msg); raised: stream_ctrl.flush() raises
module_ctrl_handler(msg, raised) ==
    IF msg[1] = "quit"
    THEN [stopped |-> ~raised, ack |-> TRUE, kill |-> TRUE]
    ELSE [stopped |-> FALSE, ack |-> TRUE, kill |-> FALSE]

\* Broker._ctrl_handler(msg); raised: stream_ctrl.flush() raises
broker_ctrl_handler(msg, raised) ==
    IF msg[1] = "quit"
    THEN [stopped |-> ~raised, ack |-> TRUE, kill |-> FALSE]
    ELSE [stopped |-> FALSE, ack |-> FALSE, kill |-> FALSE]

\* stop removing the first pending module on any ack
stop_recv_any(ids, j) == Tail(ids)

\* stop: recv_ids after an ack of identity j
stop_recv(ids, j) == IF j \in SeqToSet(ids) THEN Remove(ids, j) ELSE ids

\* self.mod_dict.keys()
RECURSIVE KeysFrom(_, _)
KeysFrom(d, n) ==
    IF n > Len(ModSeq) THEN <<>>
    ELSE (IF ModSeq[n] \in d THEN <<ModSeq[n]>> ELSE <<>>) \o KeysFrom(d, n + 1)

\* a control frame on its way to worker i
SendTo(q, i, verb) ==
    [q EXCEPT ![i] = IF Len(@) < MaxCtrlQueue THEN Append(@, <<verb>>) ELSE @]

CtrlConns == [NewConns EXCEPT !["c1"] = set(@, "m1", 0, "m2", 0, 0, "conn", 1).c]

InitCtrl ==
    /\ conns = CtrlConns
    /\ tr = <<>>
    /\ last = Idle
    /\ nops = 0
    /\ InitUnusedMgr
    /\ InitUnusedRun

\* BaseManager(port_data, port_ctrl)
NewManager ==
    /\ man_ports = <<>>
    /\ \E port_data \in {PORT_DATA}, port_ctrl \in Ports :
          /\ man_ports' = IF BaseManager_init(port_data, port_ctrl) = "ok"
                          THEN <<port_data, port_ctrl>> ELSE man_ports
          /\ last' = [op |-> "BaseManager", args |-> <<>>,
                      err |-> BaseManager_init(port_data, port_ctrl)]
    /\ UNCHANGED <<conns, tr, nops, mgrvars, tickvars, brok_dict, wports, wstate, reactor,
                   ctrl_in, ctrl_out, mpc, stop_ids, acked, nacks>>

\* man.add_brok()
AddBrok ==
    /\ mpc = "setup" /\ man_ports # <<>> /\ brok_dict = {}
    /\ LET e == Broker_init(man_ports[1], man_ports[2])
       IN /\ last' = [op |-> "add_brok", err |-> e, args |-> <<>>]
          /\ brok_dict' = IF e = "ok" THEN {Brok} ELSE brok_dict
          /\ wports' = IF e = "ok" THEN [wports EXCEPT ![Brok] = man_ports] ELSE wports
    /\ UNCHANGED <<conns, tr, nops, mgrvars, tickvars, man_ports, wstate, reactor, ctrl_in,
                   ctrl_out, mpc, stop_ids, acked, nacks>>

\* man.add_mod()
AddMod ==
    /\ mpc = "setup" /\ man_ports # <<>>
    /\ \E m \in Modules \ mod_dict :
          LET e == BaseModule_init(man_ports[1], man_ports[2])
          IN /\ last' = [op |-> "add_mod", err |-> e, args |-> <<>>]
             /\ mod_dict' = IF e = "ok" THEN mod_dict \cup {m} ELSE mod_dict
             /\ wports' = IF e = "ok" THEN [wports EXCEPT ![m] = man_ports] ELSE wports
    /\ UNCHANGED <<conns, tr, nops, conn_dict, net, routing_table, man_conn_dict,
                   tickvars, man_ports, brok_dict, wstate, reactor, ctrl_in, ctrl_out,
                   mpc, stop_ids, acked, nacks>>

\* man.connect(m1, m2, conns["c1"]) on module instances that exist
ConnectMods ==
    /\ mpc = "setup" /\ man_ports # <<>>
    /\ \E m_A \in {"m1"}, m_B \in {"m2"}, cid \in {"c1"} :
          /\ wports[m_A] # <<>> /\ wports[m_B] # <<>>
          /\ LET r == connect(World, m_A, m_B, cid)
             IN /\ conn_dict' = r.W.conn_dict
                /\ net' = r.W.net
                /\ routing_table' = r.W.routing_table
                /\ mod_dict' = r.W.mod_dict
                /\ man_conn_dict' = r.W.man_conn_dict
                /\ last' = [op |-> "connect", err |-> r.err, args |-> <<>>]
    /\ UNCHANGED <<conns, tr, nops, tickvars, ctlvars>>

\* man.start(): Broker.run and BaseModule.run up to the end of _init_net
Start ==
    /\ mpc = "setup" /\ man_ports # <<>>
    /\ wstate' = [w \in Workers |->
                    IF w \in brok_dict \cup mod_dict THEN "running" ELSE wstate[w]]
    /\ reactor' = [w \in Workers |->
                     \/ w \in brok_dict
                     \/ w \in mod_dict /\ net[w] # "none"]
    /\ recv_coords_list' = IF brok_dict # {} THEN rt_coords(routing_table)
                           ELSE recv_coords_list
    /\ mpc' = "idle"
    /\ last' = [op |-> "start", err |-> "ok", args |-> <<>>]
    /\ UNCHANGED <<conns, tr, nops, mgrvars, pc, tick, in_dict, out, in_data, out_data,
                   send_pos, send_ids, recv_ids, rcvd, toBroker, toModule,
                   data_to_route, man_ports, brok_dict, wports, ctrl_in, ctrl_out,
                   stop_ids, acked, nacks>>

\* man.send_ctrl_msg(i, verb) up to the send
SendCtrlMsg ==
    /\ mpc = "idle" /\ nops < MaxCtrlMsgs
    /\ \E i \in brok_dict \cup mod_dict, verb \in Verbs :
          ctrl_in' = SendTo(ctrl_in, i, verb)
    /\ mpc' = "wait_ack"
    /\ nops' = nops + 1
    /\ UNCHANGED <<conns, tr, last, mgrvars, tickvars, man_ports, brok_dict, wports,
                   wstate, reactor, ctrl_out, stop_ids, acked, nacks>>

\* the polling loop of send_ctrl_msg leaves when a frame has arrived
RecvAck ==
    /\ mpc = "wait_ack" /\ ctrl_out # <<>>
    /\ ctrl_out' = Tail(ctrl_out)
    /\ mpc' = "idle"
    /\ UNCHANGED <<conns, tr, last, nops, mgrvars, tickvars, man_ports, brok_dict,
                   wports, wstate, reactor, ctrl_in, stop_ids, acked, nacks>>

\* the control reactor of worker w calls _ctrl_handler on the oldest frame
CtrlHandlerOf(w) ==
    /\ wstate[w] \in {"running", "signalled"} /\ reactor[w]
    /\ ctrl_in[w] # <<>>
    /\ \E raised \in BOOLEAN :
          LET msg == Head(ctrl_in[w])
              r == IF w = Brok THEN broker_ctrl_handler(msg, raised)
                   ELSE module_ctrl_handler(msg, raised)
          IN /\ reactor' = [reactor EXCEPT ![w] = IF r.stopped THEN FALSE ELSE @]
             /\ ctrl_out' = IF r.ack THEN Append(ctrl_out, <<w, "ack">>) ELSE ctrl_out
             /\ nacks' = [nacks EXCEPT ![w] = IF r.ack THEN @ + 1 ELSE @]
             /\ wstate' = [wstate EXCEPT ![w] = IF r.kill THEN "signalled" ELSE @]
             /\ last' = [op |-> "ctrl", args |-> <<w, msg[1]>>,
                         err |-> IF raised /\ msg[1] = "quit" THEN "IOError" ELSE "ok"]
    /\ ctrl_in' = [ctrl_in EXCEPT ![w] = Tail(@)]
    /\ UNCHANGED <<conns, tr, nops, mgrvars, tickvars, man_ports, brok_dict, wports, mpc,
                   stop_ids, acked>>

CtrlHandler == \E w \in Workers : CtrlHandlerOf(w)

\* the quit signal ends BaseModule.run
ModExit ==
    /\ \E m \in Modules :
          /\ wstate[m] = "signalled"
          /\ wstate' = [wstate EXCEPT ![m] = "exited"]
          /\ reactor' = [reactor EXCEPT ![m] = FALSE]
    /\ UNCHANGED <<conns, tr, last, nops, mgrvars, tickvars, man_ports, brok_dict,
                   wports, ctrl_in, ctrl_out, mpc, stop_ids, acked, nacks>>

\* ioloop.start() returns in Broker._init_net and Broker.run ends
BrokExit ==
    /\ wstate[Brok] = "running" /\ ~reactor[Brok]
    /\ wstate' = [wstate EXCEPT ![Brok] = "exited"]
    /\ UNCHANGED <<conns, tr, last, nops, mgrvars, tickvars, man_ports, brok_dict,
                   wports, reactor, ctrl_in, ctrl_out, mpc, stop_ids, acked, nacks>>

\* man.stop() up to recv_ids = self.mod_dict.keys()
StopBegin ==
    /\ mpc = "idle"
    /\ stop_ids' = KeysFrom(mod_dict, 1)
    /\ acked' = {}
    /\ mpc' = "stop"
    /\ UNCHANGED <<conns, tr, last, nops, mgrvars, tickvars, man_ports, brok_dict,
                   wports, wstate, reactor, ctrl_in, ctrl_out, nacks>>

\* one pass of the while loop of stop
StopLoop ==
    /\ mpc = "stop" /\ stop_ids # <<>>
    /\ ctrl_in' = SendTo(ctrl_in, Head(stop_ids), "quit")
    /\ IF ctrl_out # <<>>
       THEN LET j == Head(ctrl_out)[1]
            IN /\ ctrl_out' = Tail(ctrl_out)
               /\ stop_ids' = stop_recv(stop_ids, j)
               /\ acked' = acked \cup {j}
       ELSE UNCHANGED <<ctrl_out, stop_ids, acked>>
    /\ UNCHANGED <<conns, tr, last, nops, mgrvars, tickvars, man_ports, brok_dict,
                   wports, wstate, reactor, mpc, nacks>>

\* the loop of stop over the brokers, and its return
StopBrokers ==
    /\ mpc = "stop" /\ stop_ids = <<>>
    /\ ctrl_in' = IF Brok \in brok_dict THEN SendTo(ctrl_in, Brok, "quit") ELSE ctrl_in
    /\ mpc' = "done"
    /\ UNCHANGED <<conns, tr, last, nops, mgrvars, tickvars, man_ports, brok_dict,
                   wports, wstate, reactor, ctrl_out, stop_ids, acked, nacks>>

NextCtrl ==
    \/ NewManager \/ AddBrok \/ AddMod \/ ConnectMods \/ Start
    \/ SendCtrlMsg \/ RecvAck \/ CtrlHandler \/ ModExit \/ BrokExit
    \/ StopBegin \/ StopLoop \/ StopBrokers

SpecCtrl == InitCtrl /\ [][NextCtrl]_vars

\* every enabled step of a worker or of the manager is eventually taken
FairCtrl ==
    /\ \A w \in Workers : WF_vars(CtrlHandlerOf(w))
    /\ WF_vars(ModExit) /\ WF_vars(BrokExit)
    /\ WF_vars(RecvAck) /\ WF_vars(StopLoop) /\ WF_vars(StopBrokers)

SpecCtrlFair == InitCtrl /\ [][NextCtrl]_vars /\ FairCtrl

----------------------------------------------------------------------------
(* Claims about the control plane *)

\* C14: no manager, broker or module exists whose data port equals its control
\* port.
C14_PortsDiffer ==
    /\ man_ports # <<>> => man_ports[1] # man_ports[2]
    /\ \A w \in Workers : wports[w] # <<>> => wports[w][1] # wports[w][2]

\* the step in which the control handler of worker w takes the oldest frame
HandlerStep(w) == ctrl_in[w] # <<>> /\ ctrl_in'[w] = Tail(ctrl_in[w])

Registered == mod_dict \cup brok_dict

\* C15: a worker, module or broker, that handles a control frame whose verb is
\* not quit sends exactly one ack and changes nothing else: not its net mode,
\* not the data buffers or the expected set, not whether it is running.
C15_UnknownVerbAcked ==
    [][\A w \in Workers :
          (HandlerStep(w) /\ Head(ctrl_in[w])[1] # "quit") =>
              /\ ctrl_out' = Append(ctrl_out, <<w, "ack">>)
              /\ UNCHANGED <<net, wstate, reactor, tickvars>>]_vars

\* C16: a worker that handles quit has its control reactor stopped and has sent
\* exactly one ack when the handler returns, whether or not stopping the
\* streams raised; it has not terminated before that ack, and its net mode is
\* untouched by the handler and by its termination.
C16_QuitHandled ==
    [][\A w \in Workers :
          /\ (HandlerStep(w) /\ Head(ctrl_in[w])[1] = "quit") =>
                /\ ~reactor'[w]
                /\ ctrl_out' = Append(ctrl_out, <<w, "ack">>)
                /\ wstate[w] # "exited" /\ wstate'[w] # "exited"
                /\ net' = net
          /\ (wstate[w] # "exited" /\ wstate'[w] = "exited") =>
                (nacks[w] >= 1 /\ net' = net)]_vars

\* C17: stop sends quit to a broker only when it has received an ack from every
\* registered module; while its loop runs no frame is sent to the broker, a
\* module leaves the pending list only in a pass that receives an ack carrying
\* its own identity, and an ack of an identity that is not pending leaves the
\* list as it is.
C17_StopOrdering ==
    [][/\ (mpc = "stop" /\ mpc' = "done") => (stop_ids = <<>> /\ mod_dict \subseteq acked)
       /\ (mpc = "stop" /\ mpc' = "stop") => Len(ctrl_in'[Brok]) <= Len(ctrl_in[Brok])
       /\ (mpc = "stop" /\ stop_ids' # stop_ids) =>
             /\ ctrl_out # <<>>
             /\ Head(ctrl_out)[1] \in SeqToSet(stop_ids)
             /\ stop_ids' = Remove(stop_ids, Head(ctrl_out)[1])
             /\ ctrl_out' = Tail(ctrl_out)
       /\ (mpc = "stop" /\ ctrl_out # <<>> /\ ctrl_out' = Tail(ctrl_out)
             /\ Head(ctrl_out)[1] \notin SeqToSet(stop_ids)) => stop_ids' = stop_ids]_vars

\* stop has returned after the acks of m1 and m2; m1 acknowledged twice, and
\* its second ack, received while only m2 was pending, was ignored
C17_Witness ==
    /\ mpc = "done" /\ mod_dict = {"m1", "m2"} /\ brok_dict = {Brok}
    /\ acked = {"m1", "m2"}
    /\ nacks["m1"] = 2 /\ nacks["m2"] = 1
    /\ ctrl_out = <<>>
    /\ ctrl_in[Brok] = <<<<"quit">>>>

\* C18: when stop is running and every registered module and the broker are
\* running, eventually stop has returned and every registered worker has
\* terminated.
C18_GracefulStop ==
    (mpc = "stop" /\ \A w \in Registered : wstate[w] = "running")
        ~> (mpc = "done" /\ \A w \in Registered : wstate[w] = "exited")

----------------------------------------------------------------------------
(* Claims about the broker's handler and the phases of _sync *)

\* the step is _data_handler on the oldest frame of module m
BrokerStep(m) == toBroker[m] # <<>> /\ toBroker'[m] = Tail(toBroker[m])

\* the frames added to the inbound queue of d in the step
NewFrames(d) == Appended(toModule[d], toModule'[d])

\* C21: a handler step on a frame whose edge (src, dst) is not in the expected
\* set changes neither data_to_route nor the expected set and sends nothing;
\* and a triple once buffered for an edge is never replaced by a later frame of
\* that edge: it stays where it is until the step that delivers its payload.
C21_BrokerDrop ==
    [][\A m \in Modules :
          BrokerStep(m) =>
             LET f == unpackb(Head(toBroker[m]))
             IN /\ <<m, f[1]>> \notin recv_coords_list =>
                      /\ data_to_route' = data_to_route
                      /\ recv_coords_list' = recv_coords_list
                      /\ toModule' = toModule
                /\ \A n \in 1 .. Len(data_to_route) :
                      \/ /\ n <= Len(data_to_route')
                         /\ data_to_route'[n] = data_to_route[n]
                      \/ \E k \in 1 .. Len(NewFrames(data_to_route[n][2])) :
                            NewFrames(data_to_route[n][2])[k]
                               = packb(<<data_to_route[n][1], data_to_route[n][3]>>)]_vars

\* in the fan-in emulation the broker has handled the frames of the first two
\* iterations of m1 while m2 has sent nothing: the first is buffered, the
\* second was dropped
C21_Witness ==
    /\ routing_table = {<<"m1", "m3">>, <<"m2", "m3">>}
    /\ tick["m1"] >= 2 /\ toBroker["m1"] = <<>>
    /\ tick["m2"] = 0 /\ pc["m2"] \in {"get_in", "run_step", "put_out", "sync"}
    /\ recv_coords_list = {<<"m2", "m3">>}
    /\ data_to_route = << <<"m1", "m3", Projection("m1", "m3", 0)>> >>

\* C22: in the handler step in which the expected set becomes empty, the broker
\* sends for every triple (src, dst, payload) buffered, the one of the frame
\* being handled included, exactly one frame to dst that unpacks to
\* (src, payload), sends nothing else, and leaves data_to_route empty and the
\* expected set equal to the edge set of the routing table.
C22_DispatchAndReset ==
    [][\A m \in Modules :
          (BrokerStep(m) /\ recv_coords_list = {<<m, unpackb(Head(toBroker[m]))[1]>>}) =>
             LET f == unpackb(Head(toBroker[m]))
                 dtr == Append(data_to_route, <<m, f[1], f[2]>>)
             IN /\ \A n \in 1 .. Len(dtr) :
                      Cardinality({k \in 1 .. Len(NewFrames(dtr[n][2])) :
                                      unpackb(NewFrames(dtr[n][2])[k])
                                         = <<dtr[n][1], dtr[n][3]>>}) = 1
                /\ \A d \in Modules :
                      /\ toModule[d] = SubSeq(toModule'[d], 1, Len(toModule[d]))
                      /\ Len(NewFrames(d))
                            = Cardinality({n \in 1 .. Len(dtr) : dtr[n][2] = d})
                /\ data_to_route' = <<>>
                /\ recv_coords_list' = {e \in Modules \X Modules : Edge(e[1], e[2])}]_vars

\* the first dispatch of the fully connected emulation has just happened: every
\* module has two frames waiting and the broker is re-armed
C22_Witness ==
    /\ Cardinality(routing_table) = 6
    /\ \A d \in Modules : Len(toModule[d]) = 2 /\ pc[d] = "recv" /\ tick[d] = 0
    /\ data_to_route = <<>>
    /\ Cardinality(recv_coords_list) = 6

\* what _sync sends to dst: the payload staged for it, None when none is staged
PayloadFor(m, dst) ==
    IF EntryFor(out_data[m], dst) # Absent THEN EntryFor(out_data[m], dst) ELSE None

\* C23: a module whose net is out or full starts the send part of _sync with
\* every ID of out_ids pending; every frame a module sends is sent in that part,
\* to a destination still pending, which is then no longer pending, and carries
\* the payload staged for that destination or else None; the module leaves the
\* send part, to receive or to end the iteration, only when no destination is
\* pending.  A module whose net is none or ctrl passes _sync without sending,
\* receiving or changing either buffer.
C23_SendPhase ==
    [][\A m \in Modules :
          /\ (pc[m] = "sync" /\ pc'[m] # "sync" /\ net[m] \in {"out", "full"}) =>
                /\ pc'[m] = "send"
                /\ send_ids'[m] = out_ids(World, m)
                /\ toBroker'[m] = toBroker[m]
          /\ Len(toBroker'[m]) > Len(toBroker[m]) =>
                /\ pc[m] = "send" /\ pc'[m] = "send" /\ net[m] \in {"out", "full"}
                /\ \E dst \in SeqToSet(send_ids[m]) :
                      /\ toBroker'[m] = Append(toBroker[m], packb(<<dst, PayloadFor(m, dst)>>))
                      /\ SeqToSet(send_ids'[m]) = SeqToSet(send_ids[m]) \ {dst}
                      /\ Len(send_ids'[m]) = Len(send_ids[m]) - 1
          /\ (pc[m] = "send" /\ pc'[m] # "send") =>
                /\ send_ids[m] = <<>>
                /\ pc'[m] \in {"recv", "get_in"}
          /\ (pc[m] # "recv" /\ pc'[m] = "recv" /\ net[m] = "full") => pc[m] = "send"
          /\ (pc[m] = "sync" /\ pc'[m] # "sync" /\ net[m] \in {"none", "ctrl"}) =>
                /\ pc'[m] = "get_in"
                /\ toBroker'[m] = toBroker[m] /\ toModule'[m] = toModule[m]
                /\ in_data'[m] = in_data[m] /\ out_data'[m] = out_data[m]]_vars

\* in the fully connected emulation m1 has sent one frame to each of its two
\* peers, none handled yet, and waits to receive
C23_Witness ==
    /\ Cardinality(routing_table) = 6
    /\ pc["m1"] = "recv" /\ tick["m1"] = 0
    /\ send_ids["m1"] = <<>>
    /\ Len(toBroker["m1"]) = 2

\* the sources of the entries of an incoming buffer
RECURSIVE SourcesOf(_)
SourcesOf(buf) == IF buf = <<>> THEN <<>> ELSE <<Head(buf)[1]>> \o SourcesOf(Tail(buf))

\* C24: a module whose net is in or full enters the receive part of _sync with
\* an empty incoming buffer and every ID of in_ids pending; each frame it takes
\* comes from a pending source, which is then no longer pending, and is appended
\* to the buffer unless its payload is None; the module leaves the receive part
\* only to start its next iteration, with no source pending, one frame counted
\* for every ID of in_ids and for no other module, and at most one buffer entry
\* per source.
C24_RecvPhase ==
    [][\A m \in Modules :
          /\ ((pc[m] # "recv" /\ pc'[m] = "recv")
                \/ (pc[m] \in {"sync", "send"} /\ pc'[m] = "get_in"
                      /\ net[m] \in {"in", "full"})) =>
                /\ net[m] \in {"in", "full"}
                /\ in_data'[m] = <<>>
                /\ recv_ids'[m] = in_ids(World, m)
          /\ (pc[m] = "recv" /\ toModule[m] # <<>> /\ toModule'[m] = Tail(toModule[m])) =>
                LET f == unpackb(Head(toModule[m]))
                IN /\ f[1] \in SeqToSet(recv_ids[m])
                   /\ SeqToSet(recv_ids'[m]) = SeqToSet(recv_ids[m]) \ {f[1]}
                   /\ Len(recv_ids'[m]) = Len(recv_ids[m]) - 1
                   /\ in_data'[m] = IF f[2] = None THEN in_data[m]
                                    ELSE Append(in_data[m], <<f[1], f[2]>>)
          /\ (pc[m] = "recv" /\ pc'[m] # "recv") =>
                /\ pc'[m] = "get_in"
                /\ recv_ids'[m] = <<>>
                /\ \A a \in Modules :
                      rcvd'[m][a] = IF a \in SeqToSet(in_ids(World, m)) THEN 1 ELSE 0
                /\ \A i, j \in 1 .. Len(in_data'[m]) :
                      SourcesOf(in_data'[m])[i] = SourcesOf(in_data'[m])[j] => i = j
                /\ SeqToSet(SourcesOf(in_data'[m])) \subseteq SeqToSet(in_ids(World, m))]_vars

\* m3 of the fan-in emulation has left its second receive part having taken one
\* frame from each of m1 and m2, one of the two carrying None
C24_Witness ==
    /\ routing_table = {<<"m1", "m3">>, <<"m2", "m3">>}
    /\ pc["m3"] = "get_in" /\ tick["m3"] = 2
    /\ Len(in_data["m3"]) = 1
    /\ rcvd["m3"]["m1"] = 1 /\ rcvd["m3"]["m2"] = 1

\* the edges of the triples buffered by the broker
BufferedEdges == {<<data_to_route[n][1], data_to_route[n][2]>> : n \in 1 .. Len(data_to_route)}

\* C27: between handler invocations no edge is both buffered in data_to_route
\* and in the expected set, no edge is buffered twice, and the buffered and the
\* expected edges together are exactly the edges of the routing table, which
\* the broker's removals leave as the manager built it; with nothing buffered
\* the expected set is the full edge set.
C27_BrokerPartition ==
    /\ [](/\ BufferedEdges \cap recv_coords_list = {}
          /\ \A i, j \in 1 .. Len(data_to_route) :
                (data_to_route[i][1] = data_to_route[j][1]
                    /\ data_to_route[i][2] = data_to_route[j][2]) => i = j
          /\ BufferedEdges \cup recv_coords_list = routing_table
          /\ data_to_route = <<>> => recv_coords_list = routing_table)
    /\ [][routing_table' = routing_table]_vars

\* the broker of the fully connected emulation is half-way through its second
\* round
C27_Witness ==
    /\ Cardinality(routing_table) = 6
    /\ Len(data_to_route) = 3 /\ Cardinality(recv_coords_list) = 3
    /\ \E m \in Modules : tick[m] = 1

\* in_ids and out_ids of every registered module agree with the routing table
PeersAgree ==
    \A m \in mod_dict :
       /\ SeqToSet(in_ids(World, m)) = {a \in Modules : Edge(a, m)}
       /\ SeqToSet(out_ids(World, m)) = {b \in Modules : Edge(m, b)}

\* C28: when the peer lists of all modules agree with the routing table, every
\* frame a module takes in its receive part comes from a source that is still
\* pending in that synchronisation, so the removal of the source from the
\* pending list succeeds and the receive loop never terminates the module.
C28_NoUnexpectedSource ==
    [][PeersAgree =>
          \A m \in Modules :
             /\ (pc[m] = "recv" /\ toModule[m] # <<>>
                   /\ toModule'[m] = Tail(toModule[m])) =>
                   /\ unpackb(Head(toModule[m]))[1] \in SeqToSet(recv_ids[m])
                   /\ rcvd[m][unpackb(Head(toModule[m]))[1]] = 0
             /\ pc[m] = "recv" => pc'[m] # "crashed"]_vars

\* m3 of the fan-in emulation has taken one frame of the first round while the
\* other frame of that round and both frames of the second round are waiting
C28_Witness ==
    /\ routing_table = {<<"m1", "m3">>, <<"m2", "m3">>}
    /\ pc["m3"] = "recv" /\ tick["m3"] = 0
    /\ Len(recv_ids["m3"]) = 1
    /\ Len(toModule["m3"]) = 3

\* the processes keep being scheduled: as long as some module can take a step
\* of its loop or the broker's reactor has a frame to handle, a step is taken.
\* The second conjunct is WF_vars(PutOutData), PutOutData being enabled exactly
\* when some module is at put_out.
FairRun ==
    /\ WF_vars(GetInData \/ RunStep \/ Sync \/ SyncSend \/ SyncSent \/ SyncRecv
                  \/ DataHandler)
    /\ \/ []<>(\A m \in Modules : pc[m] # "put_out")
       \/ []<><<PutOutData>>_vars

SpecRunFair == SpecRun /\ FairRun

\* a module that only sends has run the MaxTick iterations explored: the frames
\* it would send in later iterations are not part of the exploration
SenderAtBound == \E x \in mod_dict : net[x] = "out" /\ tick[x] = MaxTick

\* every registered module has completed the MaxTick iterations explored
AllTicksDone == \A m \in mod_dict : tick[m] = MaxTick /\ pc[m] = "get_in"

C30_NetAgreesWithPeers ==
    (last.op = "connect" /\ last.err = "ok") =>
        \A m \in mod_dict :
            /\ (net[m] \in {"out", "full"}) <=> (out_ids(World, m) # <<>>)
            /\ (net[m] \in {"in", "full"}) <=> (in_ids(World, m) # <<>>)

\* C31: a connect call that raises leaves the manager's module and
\* connectivity registries, the routing table and every module's connectivity
\* map and net mode as they were before the call; and the routing table never
\* holds an edge from a module to itself.
C31_ConnectAllOrNothing ==
    /\ [][(last'.op = "connect" /\ last'.err # "ok" /\ nops' = nops) =>
             /\ mod_dict' = mod_dict
             /\ man_conn_dict' = man_conn_dict
             /\ routing_table' = routing_table
             /\ conn_dict' = conn_dict
             /\ net' = net]_vars
    /\ [](\A a \in Modules : <<a, a>> \notin routing_table)

----------------------------------------------------------------------------
(* The cancellation specification: the emulations of the run specification, *)
(* in which a module can be quit at any point of its loop.  The quit        *)
(* handler signals the process, which leaves run where it is; the frames    *)
(* it has sent are still handled by the broker.                             *)

\* the quit message is handled by a module: run is left at its present position
Quit ==
    \E m \in Modules :
       /\ pc[m] \notin {"off", "crashed"} /\ net[m] # "none"
       /\ wstate[m] # "exited"
       /\ wstate' = [wstate EXCEPT ![m] = "exited"]
       /\ UNCHANGED <<conns, tr, last, nops, mgrvars, tickvars, man_ports, brok_dict,
                      wports, reactor, ctrl_in, ctrl_out, mpc, stop_ids, acked, nacks>>

\* a step of the run specification taken by a process that has not exited
StepOfLive ==
    /\ UNCHANGED wstate
    /\ \A m \in Modules :
          wstate[m] = "exited" =>
             /\ pc'[m] = pc[m] /\ send_pos'[m] = send_pos[m]
             /\ send_ids'[m] = send_ids[m] /\ rcvd'[m] = rcvd[m]

NextCancel ==
    \/ Quit
    \/ GetInData /\ StepOfLive
    \/ RunStep /\ StepOfLive
    \/ PutOutData /\ StepOfLive
    \/ Sync /\ StepOfLive
    \/ SyncSend /\ StepOfLive
    \/ SyncSent /\ StepOfLive
    \/ SyncRecv /\ StepOfLive
    \/ DataHandler

\* the emulations in which cancellation is explored: a cycle, a fan-in of two
\* pure senders, and a chain
CancelScenarios == {ScnIdentity, ScnFanIn, ScnChain}

InitCancel ==
    /\ InitRun
    /\ \E scn \in CancelScenarios :
          conns = BuildWorld(scn).conns /\ routing_table = BuildWorld(scn).routing_table

SpecCancel == InitCancel /\ [][NextCancel]_vars

\* module m has exited in an iteration in which it had not yet sent its frame on
\* every one of its outbound edges
QuitMidTick(m) ==
    /\ wstate[m] = "exited"
    /\ out_ids(World, m) # <<>>
    /\ \/ pc[m] \in {"get_in", "run_step", "put_out", "sync"}
       \/ pc[m] = "send" /\ send_ids[m] # <<>>

\* C25, as stated: once some module has been quit before sending all frames of
\* its iteration, the broker sends no frame to any module, and a module waiting
\* in its receive part that has not been quit stays there.
C25_NoDispatchAfterQuit ==
    [][(\E m \in Modules : QuitMidTick(m)) =>
          \A b \in Modules :
             /\ Len(toModule'[b]) <= Len(toModule[b])
             /\ (pc[b] = "recv" /\ wstate'[b] # "exited") => pc'[b] = "recv"]_vars

\* C25, amended: once a module has been quit in its iteration t before sending
\* all frames of that iteration, the broker never dispatches the round of
\* iteration t: no module with an inbound edge completes more than t
\* synchronisations, so one that waits in the receive part of its iteration t
\* stays there.
C25_TickNeverDispatched ==
    \A m \in Modules :
       QuitMidTick(m) =>
          \A b \in Modules :
             in_ids(World, b) # <<>> =>
                /\ tick[b] <= tick[m]
                /\ (tick[b] = tick[m] /\ pc[b] = "recv") => toModule[b] = <<>>

\* in the fan-in emulation m1 was quit in its second iteration before sending;
\* the round of the first iteration was dispatched and m3 waits in the receive
\* part of its second iteration with nothing left to handle or to take
C25_Witness ==
    /\ routing_table = {<<"m1", "m3">>, <<"m2", "m3">>}
    /\ QuitMidTick("m1") /\ tick["m1"] = 1
    /\ wstate["m3"] # "exited" /\ pc["m3"] = "recv" /\ tick["m3"] = 1
    /\ toBroker = [x \in Modules |-> <<>>]
    /\ toModule = [x \in Modules |-> <<>>]

----------------------------------------------------------------------------
(* The message specification: the broker's data handler and a module's      *)
(* _get_in_data applied to messages and buffer entries of any length.       *)

\* number of messages, buffer entries and ingest calls explored
MaxMsgs == 3
\* number of entries put into an incoming buffer before it is ingested
MaxBuf == 2

\* the payloads of the messages explored
MsgPayloads == {Data(<<7>>), None}

\* multipart messages of one, two and three frames arriving at the broker
Msgs ==
    {<<s>> : s \in Modules}
       \cup {<<s, packb(<<d, p>>)>> : s \in Modules, d \in Modules, p \in MsgPayloads}
       \cup {<<s, packb(<<d, Data(<<7>>)>>), "extra">> : s \in Modules, d \in Modules}

\* entries of one, two and three elements in an incoming buffer
Entries ==
    {<<s>> : s \in Modules}
       \cup {<<s, Data(<<7>>)>> : s \in Modules}
       \cup {<<s, Data(<<8>>), "extra">> : s \in Modules}

\* Broker._data_handler on a message of any number of frames
HandleMsg ==
    \E msg \in Msgs :
       /\ nops < MaxMsgs
       /\ LET r == data_handler(data_to_route, recv_coords_list, routing_table, msg)
          IN /\ data_to_route' = r.data_to_route
             /\ recv_coords_list' = r.recv_coords_list
             /\ toModule' = [d \in Modules |-> toModule[d] \o r.sent[d]]
       /\ last' = [op |-> "data_handler", err |-> "ok", args |-> <<msg>>]
       /\ nops' = nops + 1
       /\ UNCHANGED <<conns, tr, mgrvars, ctlvars, pc, tick, in_dict, out, in_data,
                      out_data, send_pos, send_ids, recv_ids, rcvd, toBroker>>

\* an entry is put into the incoming buffer of a module
StageEntry ==
    \E m \in mod_dict, entry \in Entries :
       /\ nops < MaxMsgs /\ Len(in_data[m]) < MaxBuf
       /\ in_data' = [in_data EXCEPT ![m] = Append(@, entry)]
       /\ last' = [op |-> "append", err |-> "ok", args |-> <<m, entry>>]
       /\ nops' = nops + 1
       /\ UNCHANGED <<conns, tr, mgrvars, ctlvars, pc, tick, in_dict, out,
                      out_data, send_pos, send_ids, recv_ids, rcvd, toBroker, toModule,
                      data_to_route, recv_coords_list>>

\* self._get_in_data(in_dict) on whatever the buffer holds
Ingest ==
    \E m \in mod_dict :
       /\ nops < MaxMsgs
       /\ in_dict' = [in_dict EXCEPT ![m] = get_in_data(@, in_data[m])]
       /\ in_data' = [in_data EXCEPT ![m] = <<>>]
       /\ last' = [op |-> "get_in_data", err |-> "ok", args |-> <<m, in_data[m]>>]
       /\ nops' = nops + 1
       /\ UNCHANGED <<conns, tr, mgrvars, ctlvars, pc, tick, out, out_data, send_pos,
                      send_ids, recv_ids, rcvd, toBroker, toModule, data_to_route,
                      recv_coords_list>>

NextMsg == HandleMsg \/ StageEntry \/ Ingest

SpecMsg == InitCancel /\ [][NextMsg]_vars

\* C26: a broker data message whose number of frames is not 2 changes neither
\* the expected set nor data_to_route and sends nothing, and the handler
\* returns normally; _get_in_data changes the in_dict entry of a source only to
\* the payload of a two-element buffer entry from that source, returns
\* normally, and leaves the incoming buffer empty.
C26_MalformedDropped ==
    [][/\ (last'.op = "data_handler" /\ nops' = nops + 1) =>
             /\ last'.err = "ok"
             /\ Len(last'.args[1]) # 2 =>
                   /\ data_to_route' = data_to_route
                   /\ recv_coords_list' = recv_coords_list
                   /\ toModule' = toModule
       /\ (last'.op = "get_in_data" /\ nops' = nops + 1) =>
             LET m == last'.args[1]
                 buf == last'.args[2]
             IN /\ last'.err = "ok"
                /\ in_data'[m] = <<>>
                /\ \A s \in Modules :
                      in_dict'[m][s] # in_dict[m][s] =>
                         \E n \in 1 .. Len(buf) :
                            /\ Len(buf[n]) = 2
                            /\ buf[n][1] = s /\ buf[n][2] = in_dict'[m][s]]_vars

\* the broker has just skipped a message of three frames while holding a
\* buffered triple, and a module's buffer holds an entry of one element
C26_Witness ==
    /\ last.op = "data_handler" /\ Len(last.args[1]) = 3
    /\ data_to_route # <<>>
    /\ \E m \in mod_dict : in_data[m] # <<>> /\ Len(in_data[m][1]) = 1

====
